---- MODULE Spec2Model ----
(***************************************************************************)
(* Verification model of gigachat: the pairer classes (candidate side of   *)
(* the blind-pairing handshake), the member-side invite responder and the  *)
(* Autobase apply functions with their command handlers.                   *)
(*                                                                         *)
(* Nine specifications share the module; each leaves the variables of     *)
(* the other parts untouched:                                              *)
(*   SpecPairer  - GigauserPairer / GigaRoomPairer / RoomPairer /          *)
(*                 UserPairer and the operations that drive them           *)
(*   SpecMember  - createInvite and the member onadd responder             *)
(*   SpecReplay  - _apply and the router handlers over the writers' logs   *)
(*   SpecConv    - two replicas of one room replaying the same logs         *)
(*   SpecConvLive - the same two replicas with fair replication             *)
(*   SpecAppend  - the methods that append to the local log                 *)
(*   SpecDevices - two paired devices of one user and their cached data     *)
(*   SpecJoin    - a GigaRoom, its creator and a user joining by invite     *)
(*   SpecRecover - Gigauser.recoverFromSeed waiting for an invite           *)
(***************************************************************************)
EXTENDS Integers, Sequences, FiniteSets, TLC

\* ------------------------------------------------------------------------
\* Bounds and program constants
\* ------------------------------------------------------------------------

\* one step of the clock, in milliseconds
TickMs ==
  15000

\* the clock stops advancing here (milliseconds)
MaxTime ==
  60000

\* setTimeout of the second-draft Gigauser.pairDevice
PairDeviceTimeoutMs ==
  45000

\* setTimeout of GigaRoom.joinRoom
JoinRoomTimeoutMs ==
  30000

\* ------------------------------------------------------------------------
\* Part 1: the pairers (candidate side)
\* ------------------------------------------------------------------------

VARIABLES
  op,          \* the operation that owns the pairer
  kind,        \* the pairer class
  opened,      \* ReadyResource: _open has completed
  closeState,  \* ReadyResource close(): "no", "begun", "done"
  closing,     \* RoomPairer._closing
  swarm,       \* pairer.swarm: "null" or "ref"
  swarmObj,    \* the Hyperswarm the pairer created: "none", "live", "destroyed"
  candidate,   \* pairer.candidate: "null" or "ref"
  candObj,     \* the blind-pairing candidate: "none", "open", "closing", "closed"
  store,       \* pairer.store: "ref" or "null"
  storeObj,    \* the corestore: "open", "closed"
  user,        \* pairer.user / pairer.room: "null" or "ref"
  userObj,     \* the joined Gigauser / GigaRoom / RoomManager / UserManager
  writable,    \* user.base.writable
  onresolve,   \* pairer.onresolve is set
  onreject,    \* pairer.onreject is set
  promise,     \* the promise of finished(): "none", "pending", "resolved", "rejected"
  listener,    \* check is registered on user.base 'update'
  onaddFired,  \* the member's confirmation has reached the candidate's onadd
  confirmedAtClose, \* history: onadd had fired when close() was called
  now,         \* the clock, milliseconds
  timer,       \* the setTimeout of the operation: "none", "armed", "fired"
  deadline,    \* when the timer fires
  opStart,     \* when the operation was called
  opState      \* the operation: "idle", "pending", "returned", "failed", "timedout", "thrown"

pvars ==
  << op, kind, opened, closeState, closing, swarm, swarmObj, candidate, candObj,
     store, storeObj, user, userObj, writable, onresolve, onreject, promise,
     listener, onaddFired, confirmedAtClose, now, timer, deadline, opStart,
     opState >>

VARIABLES
  mvariant,   \* the class whose responder runs
  invites,    \* the invite collection of the view
  mnow,       \* Date.now()
  mwriters,   \* the writer set of the member's base
  mwritable,  \* base.writable of the member
  cstate,     \* per candidate: the handshake as the member handled it
  mlookups    \* createInvite calls that found no stored invite and have not
              \* appended yet

mvars ==
  << mvariant, invites, mnow, mwriters, mwritable, cstate, mlookups >>

VARIABLES
  rvariant,   \* the class whose _apply and handlers run
  logs,       \* per writer key, the entries of its log
  cursor,     \* per writer key, how many of its entries have been replayed
  writers,    \* the writer set of the base (system view)
  view,       \* the flushed view: a set of documents
  txview,     \* the view object _apply writes to, unflushed updates included
  history,    \* the replayed entries in replay order, with what happened to each
  lastBatch,  \* what the last _apply call did to each node it was given
  bstatus     \* "ok", or "failed" once _apply has thrown

rvars ==
  << rvariant, logs, cursor, writers, view, txview, history, lastBatch, bstatus >>

VARIABLES
  cvariant,   \* the room class both replicas run
  clogs,      \* per writer key, the entries of its log
  arrival,    \* per replica, the entries it holds, in the order they arrived
  cview,      \* per replica, the view its replay produced
  channels,   \* per replica, GigaRoom._channels
  cevents     \* per replica, the events the last _apply emitted, in order

cvars ==
  << cvariant, clogs, arrival, cview, channels, cevents >>

VARIABLES
  awritable,  \* base.writable of the local device
  alen,       \* the length of the local device's log
  acall,      \* the last call of a method that appends, and how it ended
  adevices,   \* the documents of '@usermanager/devices' in the local view
  alast       \* the last removeDevice call: its argument, what it returned
              \* and the commands it appended

avars ==
  << awritable, alen, acall, adevices, alast >>

VARIABLES
  dvariant,   \* the Gigauser draft both devices run
  idBase,     \* the id the generated dispatch gives the first registered command
  glog,       \* the user's entries, in the order the base replays them
  known,      \* per device, the positions of glog it holds
  dcache,     \* per device, publicKey, _profile, _rooms and _settings
  dstate,     \* per device: "new", "open" (_open done), "paired"
  dop         \* the last operation and the device it ran on

dvars ==
  << dvariant, idBase, glog, known, dcache, dstate, dop >>

VARIABLES
  jbase,      \* the id the generated dispatch gives the room's first command
  jlogs,      \* per room writer, the entries of its log
  jheld,      \* per replica and writer, how many of the writer's entries it holds
  jmembers,   \* per replica, GigaRoom._members
  jroomId,    \* per replica, GigaRoom.id
  jcreate,    \* createRoom: "new", "appended", "done", "failed"
  jjoin       \* joinRoom: "none", "pairing", "confirmed", "resolved", "joined",
              \* "timedout"

jvars ==
  << jbase, jlogs, jheld, jmembers, jroomId, jcreate, jjoin >>

VARIABLES
  qtimeout,   \* recoveryTimeout of the call (milliseconds)
  qnow,       \* milliseconds since recoverFromSeed was called
  qnextPoll,  \* when the setInterval check fires next
  qinvite,    \* receivedInvite is set
  qat,        \* when the invite-response arrived (-1: never)
  qstate,     \* "waiting", "pairing", "creating", "done"
  qswarm,     \* the swarm recoverFromSeed created: "joined", "destroyed"
  qresult     \* "none", "paired", "pairing-threw", "created"

qvars ==
  << qtimeout, qnow, qnextPoll, qinvite, qat, qstate, qswarm, qresult >>

vars ==
  << pvars, mvars, rvars, cvars, avars, dvars, jvars, qvars >>

\* what the actions of one part leave alone
PairerFrame ==
  UNCHANGED << mvars, rvars, cvars, avars, dvars, jvars, qvars >>

MemberFrame ==
  UNCHANGED << pvars, rvars, cvars, avars, dvars, jvars, qvars >>

ReplayFrame ==
  UNCHANGED << pvars, mvars, cvars, avars, dvars, jvars, qvars >>

ConvFrame ==
  UNCHANGED << pvars, mvars, rvars, avars, dvars, jvars, qvars >>

AppendFrame ==
  UNCHANGED << pvars, mvars, rvars, cvars, dvars, jvars, qvars >>

DevFrame ==
  UNCHANGED << pvars, mvars, rvars, cvars, avars, jvars, qvars >>

JoinFrame ==
  UNCHANGED << pvars, mvars, rvars, cvars, avars, dvars, qvars >>

RecoverFrame ==
  UNCHANGED << pvars, mvars, rvars, cvars, avars, dvars, jvars >>

PairerKinds ==
  {"GigauserPairer", "GigaRoomPairer", "RoomPairer", "UserPairer"}

\* the operations that create a pairer and the class each one creates;
\* "direct" is a caller using Gigauser.pair / GigaRoom.pair and the pairer's
\* public methods itself
OpKinds ==
  { <<"pairDevice1", "GigauserPairer">>,
    <<"pairDevice2", "GigauserPairer">>,
    <<"joinRoom", "GigaRoomPairer">>,
    <<"join", "RoomPairer">> }
  \cup { <<"direct", k>> : k \in PairerKinds }

\* the timeout an operation races the pairing promise against; 0: none
OpTimeout(o) ==
  CASE o = "pairDevice2" -> PairDeviceTimeoutMs
    [] o = "joinRoom" -> JoinRoomTimeoutMs
    [] OTHER -> 0

\* (mutant) a promise that takes every outcome it is given
SettleAgain(p, outcome) ==
  outcome

\* a promise settles at most once; the only reject call of a pairer is
\* onreject(new Error('Pairing closed')) in _close, so "rejected" is a
\* rejection with that error
Settle(p, outcome) ==
  IF p = "pending" THEN outcome ELSE p

\* (mutant) a check listener that resolves on any 'update'
CheckResolvesAlways(w) ==
  TRUE

\* the check listener of _whenWritable: resolves when the base is writable
CheckResolves(w) ==
  w

\* _whenWritable called with user.base.writable = w:
\* resolve now, or register check on 'update', or neither
WhenWritable(k, w) ==
  IF w
    THEN IF k \in {"GigauserPairer", "GigaRoomPairer"}
           THEN [resolve |-> FALSE, listen |-> FALSE]
           ELSE [resolve |-> TRUE, listen |-> FALSE]
    ELSE [resolve |-> FALSE, listen |-> TRUE]

\* (mutant) an onadd that never returns early
OnaddReturnsEarlyNever(k, cl) ==
  FALSE

\* RoomPairer's onadd: if (this._closing) return; the other pairers have no
\* such line
OnaddReturnsEarly(k, cl) ==
  k = "RoomPairer" /\ cl

\* the pairer right after its constructor
PairerFresh ==
  /\ opened = FALSE
  /\ closeState = "no"
  /\ closing = FALSE
  /\ swarm = "null"
  /\ swarmObj = "none"
  /\ candidate = "null"
  /\ candObj = "none"
  /\ store = "ref"
  /\ storeObj = "open"
  /\ user = "null"
  /\ userObj = "none"
  /\ writable = FALSE
  /\ onresolve = FALSE
  /\ onreject = FALSE
  /\ promise = "none"
  /\ listener = FALSE
  /\ onaddFired = FALSE
  /\ confirmedAtClose = FALSE
  /\ now = 0
  /\ timer = "none"
  /\ deadline = 0
  /\ opStart = 0
  /\ opState = "idle"

PairerInit ==
  /\ \E ok \in OpKinds : op = ok[1] /\ kind = ok[2]
  /\ PairerFresh

\* the pairer part when another part is explored
PairerIdle ==
  /\ op = "direct"
  /\ kind = "GigauserPairer"
  /\ PairerFresh

\* finished(): pairDevice / joinRoom / join call it right after constructing
\* the pairer and start their timeout next to it; a direct caller may call it
\* at any time
Finished ==
  /\ promise = "none"
  /\ op = "direct" \/ ~opened
  /\ onresolve' = TRUE
  /\ onreject' = TRUE
  /\ promise' = "pending"
  /\ opStart' = now
  /\ opState' = IF op = "direct" THEN opState ELSE "pending"
  /\ IF OpTimeout(op) # 0
       THEN timer' = "armed" /\ deadline' = now + OpTimeout(op)
       ELSE UNCHANGED << timer, deadline >>
  /\ UNCHANGED << op, kind, confirmedAtClose, opened, closeState, closing, swarm, swarmObj,
                  candidate, candObj, store, storeObj, user, userObj, writable,
                  listener, onaddFired, now >>
  /\ PairerFrame

\* _open: the swarm is created and the candidate is added
PairerOpen ==
  /\ ~opened
  /\ closeState = "no"
  /\ op = "direct" \/ promise # "none"
  /\ opened' = TRUE
  /\ swarm' = "ref"
  /\ swarmObj' = "live"
  /\ candidate' = "ref"
  /\ candObj' = "open"
  /\ UNCHANGED << op, kind, confirmedAtClose, closeState, closing, store, storeObj, user, userObj,
                  writable, onresolve, onreject, promise, listener, onaddFired,
                  now, timer, deadline, opStart, opState >>
  /\ PairerFrame

\* the candidate's onadd: the member's confirmation has arrived
CandidateOnadd ==
  /\ opened
  /\ ~onaddFired
  /\ candObj = "open" \/ (candObj = "closing" /\ closeState = "begun")
  /\ onaddFired' = TRUE
  /\ IF OnaddReturnsEarly(kind, closing)
       THEN UNCHANGED << user, userObj, swarm, store, promise, listener, candObj >>
       ELSE LET ww == WhenWritable(kind, writable) IN
            /\ user' = "ref"
            /\ userObj' = IF user = "null" THEN "open" ELSE userObj
            /\ swarm' = "null"
            /\ store' = "null"
            /\ IF onresolve
                 THEN /\ promise' = IF ww.resolve THEN Settle(promise, "resolved") ELSE promise
                      /\ listener' = (listener \/ ww.listen)
                 ELSE UNCHANGED << promise, listener >>
            /\ candObj' = IF candObj = "open" THEN "closing" ELSE candObj
  /\ UNCHANGED << op, kind, confirmedAtClose, opened, closeState, closing, swarmObj, candidate,
                  storeObj, writable, onresolve, onreject, now, timer, deadline,
                  opStart, opState >>
  /\ PairerFrame

\* candidate.close() started by onadd completes
CandidateClosed ==
  /\ candObj = "closing"
  /\ closeState # "begun"
  /\ candObj' = "closed"
  /\ UNCHANGED << op, kind, confirmedAtClose, opened, closeState, closing, swarm, swarmObj,
                  candidate, store, storeObj, user, userObj, writable, onresolve,
                  onreject, promise, listener, onaddFired, now, timer, deadline,
                  opStart, opState >>
  /\ PairerFrame

\* the joined base emits 'update'; the replayed log may by now contain the
\* candidate's own admission
BaseUpdate ==
  /\ userObj = "open"
  /\ \E w \in {writable, TRUE} :
       /\ writable' = w
       /\ IF listener /\ CheckResolves(w)
            THEN /\ listener' = FALSE
                 /\ promise' = Settle(promise, "resolved")
            ELSE UNCHANGED << listener, promise >>
  /\ UNCHANGED << op, kind, confirmedAtClose, opened, closeState, closing, swarm, swarmObj,
                  candidate, candObj, store, storeObj, user, userObj, onresolve,
                  onreject, onaddFired, now, timer, deadline, opStart, opState >>
  /\ PairerFrame

\* who may call close() on the pairer: a direct caller at any time; join only
\* from its catch block, that is after finished() has rejected; pairDevice and
\* joinRoom keep the pairer in a local variable and never close it
MayClose ==
  \/ op = "direct"
  \/ op = "join" /\ promise = "rejected"

\* _close up to its first await: the candidate's close is started; RoomPairer
\* and UserPairer also look at this.swarm here and start its destruction
PairerCloseBegin ==
  /\ MayClose
  /\ opened
  /\ closeState = "no"
  /\ closeState' = "begun"
  /\ confirmedAtClose' = onaddFired
  /\ closing' = IF kind = "RoomPairer" THEN TRUE ELSE closing
  /\ candObj' = IF candidate # "null" /\ candObj = "open" THEN "closing" ELSE candObj
  /\ swarmObj' = IF kind \in {"RoomPairer", "UserPairer"} /\ swarm # "null"
                   THEN "destroyed" ELSE swarmObj
  /\ storeObj' = IF kind = "UserPairer" /\ store # "null" THEN "closed" ELSE storeObj
  /\ UNCHANGED << op, kind, opened, swarm, candidate, store, user, userObj,
                  writable, onresolve, onreject, promise, listener, onaddFired,
                  now, timer, deadline, opStart, opState >>
  /\ PairerFrame

\* the rest of _close: the awaited closes complete, then onreject is called
\* or, when nobody waits, the joined user / room is closed (which destroys the
\* swarm that was handed to it)
PairerCloseEnd ==
  /\ closeState = "begun"
  /\ closeState' = "done"
  /\ candObj' = IF candidate # "null" THEN "closed" ELSE candObj
  /\ LET destroyedHere ==
           kind \in {"GigauserPairer", "GigaRoomPairer"} /\ swarm # "null"
         closesUser == ~onreject /\ user # "null"
     IN  /\ swarmObj' = IF destroyedHere \/ (closesUser /\ swarmObj = "live")
                          THEN "destroyed" ELSE swarmObj
         /\ userObj' = IF closesUser THEN "closed" ELSE userObj
         /\ listener' = IF closesUser THEN FALSE ELSE listener
  /\ storeObj' = IF kind # "UserPairer" /\ store # "null" THEN "closed" ELSE storeObj
  /\ promise' = IF onreject THEN Settle(promise, "rejected") ELSE promise
  /\ UNCHANGED << op, kind, confirmedAtClose, opened, closing, swarm, candidate, store, user,
                  writable, onresolve, onreject, onaddFired, now, timer,
                  deadline, opStart, opState >>
  /\ PairerFrame

\* the clock advances once the operation has been called; an armed timer
\* fires at its deadline, before time passes it
Tick ==
  /\ now < MaxTime
  /\ promise # "none"
  /\ ~(timer = "armed" /\ now >= deadline)
  /\ now' = IF timer = "armed" /\ now + TickMs > deadline
              THEN deadline ELSE now + TickMs
  /\ UNCHANGED << op, kind, confirmedAtClose, opened, closeState, closing, swarm, swarmObj,
                  candidate, candObj, store, storeObj, user, userObj, writable,
                  onresolve, onreject, promise, listener, onaddFired, timer,
                  deadline, opStart, opState >>
  /\ PairerFrame

\* the timeout promise rejects: Promise.race rejects unless it has settled
TimerFire ==
  /\ timer = "armed"
  /\ now >= deadline
  /\ timer' = "fired"
  /\ opState' = IF opState = "pending" THEN "timedout" ELSE opState
  /\ UNCHANGED << op, kind, confirmedAtClose, opened, closeState, closing, swarm, swarmObj,
                  candidate, candObj, store, storeObj, user, userObj, writable,
                  onresolve, onreject, promise, listener, onaddFired, now,
                  deadline, opStart >>
  /\ PairerFrame

\* the operation's await sees the pairing promise settled
OpSettle ==
  /\ opState = "pending"
  /\ promise \in {"resolved", "rejected"}
  /\ opState' = IF promise = "resolved" THEN "returned" ELSE "failed"
  /\ UNCHANGED << op, kind, confirmedAtClose, opened, closeState, closing, swarm, swarmObj,
                  candidate, candObj, store, storeObj, user, userObj, writable,
                  onresolve, onreject, promise, listener, onaddFired, now,
                  timer, deadline, opStart >>
  /\ PairerFrame

\* the catch block of pairDevice / joinRoom logs the timeout error and
\* rethrows it to the caller
OpCatch ==
  /\ opState = "timedout"
  /\ opState' = "thrown"
  /\ UNCHANGED << op, kind, confirmedAtClose, opened, closeState, closing, swarm, swarmObj,
                  candidate, candObj, store, storeObj, user, userObj, writable,
                  onresolve, onreject, promise, listener, onaddFired, now,
                  timer, deadline, opStart >>
  /\ PairerFrame
PairerNext ==
  \/ Finished
  \/ PairerOpen
  \/ CandidateOnadd
  \/ CandidateClosed
  \/ BaseUpdate
  \/ PairerCloseBegin
  \/ PairerCloseEnd
  \/ Tick
  \/ TimerFire
  \/ OpSettle
  \/ OpCatch


\* ------------------------------------------------------------------------
\* Part 2: the member side - createInvite and the member's onadd responder
\* ------------------------------------------------------------------------

\* 24 * 60 * 60 * 1000: the default expiry of GigaRoom.createInvite and the
\* default expiresIn of UserManager / RoomManager.createInvite
DefaultExpiryMs ==
  86400000

\* invite ids are drawn from 1..MaxInvites
MaxInvites ==
  2

MemberVariants ==
  {"GigaRoom", "Gigauser1", "Gigauser2", "UserManager", "RoomManager"}

Cands ==
  {"Y", "Z"}

\* findOne / find returned nothing
NoInvite ==
  [id |-> 0, expires |-> 0, expiresAt |-> 0, maxUses |-> 0, useCount |-> 0,
   isRevoked |-> FALSE]

\* view.findOne(collection, {}): the first record in key (id) order
FindOne(invs) ==
  IF invs = {} THEN NoInvite
  ELSE CHOOSE i \in invs : \A j \in invs : i.id <= j.id

\* the for-await loop over view.find(...) that stops at b4a.equals(invite.id, id)
FindById(invs, id) ==
  IF \E i \in invs : i.id = id
    THEN CHOOSE i \in invs : i.id = id
    ELSE NoInvite

\* the invite record the responder examines
Lookup(v, invs, id) ==
  IF v \in {"GigaRoom", "Gigauser2"} THEN FindById(invs, id) ELSE FindOne(invs)

\* inv.expires && inv.expires < now
ExpiryCheck(v, inv, t) ==
  v \in {"GigaRoom", "Gigauser2"} /\ inv.expires # 0 /\ inv.expires < t

\* the member's onadd for a candidate presenting invite id `id` at time t;
\* proofOk: candidate.open(inv.publicKey) verifies; canAppend: base.append of
\* the add-writer entry succeeds.  The result tells which steps were taken.
MemberOnaddResult(v, invs, id, t, proofOk, canAppend) ==
  LET inv == Lookup(v, invs, id)
      nothing == [opened |-> FALSE, added |-> FALSE, confirmed |-> FALSE]
  IN  IF inv = NoInvite THEN nothing
      ELSE IF ExpiryCheck(v, inv, t) THEN nothing
      ELSE IF inv.id # id THEN nothing
      ELSE IF ~proofOk THEN nothing
      ELSE IF canAppend
             THEN [opened |-> TRUE, added |-> TRUE, confirmed |-> TRUE]
      ELSE IF v = "UserManager"
             THEN [opened |-> TRUE, added |-> FALSE, confirmed |-> TRUE]
      ELSE [opened |-> TRUE, added |-> FALSE, confirmed |-> FALSE]

\* createInvite returns the stored invite instead of creating one
ReturnsExisting(v, invs) ==
  v \in {"Gigauser1", "UserManager", "RoomManager"} /\ invs # {}

\* the member right after it opened
MemberFresh ==
  /\ invites = {}
  /\ mnow = 0
  /\ mwriters = {"M"}
  /\ mwritable = TRUE
  /\ mlookups = 0
  /\ cstate = [c \in Cands |->
                 [invite |-> 0, at |-> 0, handled |-> FALSE, revoked |-> FALSE,
                  opened |-> FALSE, added |-> FALSE, confirmed |-> FALSE]]

MemberInit ==
  /\ mvariant \in MemberVariants
  /\ MemberFresh

MemberIdle ==
  /\ mvariant = "GigaRoom"
  /\ MemberFresh

\* createInvite(opts): expiry is opts.expires - now (GigaRoom) or
\* opts.expiresIn (UserManager, RoomManager), 0 when the option is not given;
\* libExpires is the expires field BlindPairing.createInvite returns
CreateInvite(id, expiry, maxUses, libExpires) ==
  /\ mwritable
  /\ ~ReturnsExisting(mvariant, invites)
  /\ \A i \in invites : i.id # id
  /\ mvariant # "GigaRoom" => maxUses = 0
  /\ mvariant \in {"Gigauser1", "Gigauser2"} => expiry = 0
  /\ LET requested == mnow + (IF expiry # 0 THEN expiry ELSE DefaultExpiryMs)
         rec == CASE mvariant = "GigaRoom" ->
                       [id |-> id, expires |-> requested, expiresAt |-> requested,
                        maxUses |-> maxUses, useCount |-> 0, isRevoked |-> FALSE]
                  [] mvariant \in {"UserManager", "RoomManager"} ->
                       [id |-> id, expires |-> libExpires, expiresAt |-> requested,
                        maxUses |-> 0, useCount |-> 0, isRevoked |-> FALSE]
                  [] OTHER ->
                       [id |-> id, expires |-> libExpires, expiresAt |-> 0,
                        maxUses |-> 0, useCount |-> 0, isRevoked |-> FALSE]
     IN  /\ libExpires \in (IF mvariant \in {"UserManager", "RoomManager"}
                              THEN {0, requested} ELSE {0})
         /\ invites' = invites \cup {rec}
  /\ UNCHANGED << mvariant, mnow, mwriters, mwritable, cstate, mlookups >>
  /\ MemberFrame

\* at most this many createInvite calls are between their lookup and their
\* append at the same time
MaxLookups ==
  1

\* createInvite up to the await of view.findOne, in a variant that returns
\* the stored invite: the lookup found nothing, the call goes on to create
\* an invite.  The call runs on this device or on another writer's device
\* whose view holds no invite yet.
CreateInviteLookup ==
  /\ mvariant \in {"Gigauser1", "UserManager", "RoomManager"}
  /\ invites = {}
  /\ mlookups < MaxLookups
  /\ mlookups' = mlookups + 1
  /\ UNCHANGED << mvariant, invites, mnow, mwriters, mwritable, cstate >>
  /\ MemberFrame

\* the rest of such a call: BlindPairing.createInvite and base.append of the
\* add-invite entry, whose handler inserts the record under its id
CreateInviteAppend(id, libExpires) ==
  /\ mlookups > 0
  /\ \A i \in invites : i.id # id
  /\ libExpires \in {0, mnow + DefaultExpiryMs}
  /\ mvariant = "Gigauser1" => libExpires = 0
  /\ invites' = invites \cup
       {[id |-> id, expires |-> libExpires,
         expiresAt |-> IF mvariant = "Gigauser1" THEN 0 ELSE mnow + DefaultExpiryMs,
         maxUses |-> 0, useCount |-> 0, isRevoked |-> FALSE]}
  /\ mlookups' = mlookups - 1
  /\ UNCHANGED << mvariant, mnow, mwriters, mwritable, cstate >>
  /\ MemberFrame

\* a candidate's request reaches the member's onadd
MemberOnadd(c, id, proofOk) ==
  /\ ~cstate[c].handled
  /\ proofOk => \E i \in invites : i.id = id
  /\ LET r == MemberOnaddResult(mvariant, invites, id, mnow, proofOk, mwritable)
     IN  /\ cstate' = [cstate EXCEPT ![c] =
                         [invite |-> id, at |-> mnow, handled |-> TRUE,
                          revoked |-> FindById(invites, id).isRevoked,
                          opened |-> r.opened, added |-> r.added,
                          confirmed |-> r.confirmed]]
         /\ mwriters' = IF r.added THEN mwriters \cup {c} ELSE mwriters
  /\ UNCHANGED << mvariant, invites, mnow, mwritable, mlookups >>
  /\ MemberFrame

\* the add-invite handler replays an entry that carries isRevoked: true for
\* a stored invite: view.insert on the collection keyed by id replaces the
\* record.  No method of the room writes such an entry; the field is part of
\* the @gigaroom/invite schema and the handler stores whatever it is given.
AddInviteRevoked(id) ==
  /\ mvariant = "GigaRoom"
  /\ \E i \in invites : i.id = id /\ ~i.isRevoked
  /\ invites' = {IF i.id = id THEN [i EXCEPT !.isRevoked = TRUE] ELSE i :
                   i \in invites}
  /\ UNCHANGED << mvariant, mnow, mwriters, mwritable, cstate, mlookups >>
  /\ MemberFrame

\* another device's remove-writer entry for this member has been replayed
MemberLosesWrite ==
  /\ mwritable
  /\ mwriters # {"M"}
  /\ mwritable' = FALSE
  /\ mwriters' = mwriters \ {"M"}
  /\ UNCHANGED << mvariant, invites, mnow, cstate, mlookups >>
  /\ MemberFrame
MemberTick ==
  /\ mnow < MaxTime
  /\ mnow' = mnow + TickMs
  /\ UNCHANGED << mvariant, invites, mwriters, mwritable, cstate, mlookups >>
  /\ MemberFrame
MemberNext ==
  \/ \E id \in 1..MaxInvites, expiry \in {0, TickMs}, maxUses \in {0, 1},
        libExpires \in {0} \cup {mnow + e : e \in {TickMs, DefaultExpiryMs}} :
       CreateInvite(id, expiry, maxUses, libExpires)
  \/ \E c \in Cands, id \in 1..MaxInvites, proofOk \in BOOLEAN :
       MemberOnadd(c, id, proofOk)
  \/ \E id \in 1..MaxInvites : AddInviteRevoked(id)
  \/ CreateInviteLookup
  \/ \E id \in 1..MaxInvites, libExpires \in {0, mnow + DefaultExpiryMs} :
       CreateInviteAppend(id, libExpires)
  \/ MemberLosesWrite
  \/ MemberTick

\* ------------------------------------------------------------------------
\* Part 3: replay - _apply and the router handlers over the writers' logs
\* ------------------------------------------------------------------------

\* at most this many entries over all logs
MaxEntries ==
  3

\* at most this many nodes in one _apply call
MaxBatch ==
  2

ReplayVariants ==
  {"GigaRoom", "Gigauser1", "Gigauser2", "UserManager", "RoomManager",
   "GigachatRoom"}

\* writer keys; X created the base
Keys ==
  {"X", "Y"}

DocIds ==
  {"r1"}

\* the name field of a payload
Names ==
  {"Test", "Other"}

\* the values writers append: add-writer / remove-writer carry a key; "data"
\* stands for a command whose handler inserts its payload into the view
\* (create-room, set-profile, add-invite, ...), arg being the payload's id;
\* ok = FALSE is a payload that does not decode; "unknown" is a command id no
\* handler is registered for; "add-message" is a message that carries an
\* author and a signature which is not the HMAC _verifySignature computes
Entries ==
  [cmd : {"add-writer", "remove-writer"}, arg : Keys, ok : {TRUE}]
    \cup [cmd : {"data"}, arg : DocIds, ok : {TRUE}, name : Names]
    \cup [cmd : {"data"}, arg : DocIds, ok : {FALSE}, name : {"Test"}]
    \cup [cmd : {"unknown"}, arg : DocIds, ok : {TRUE}]
    \cup [cmd : {"add-message"}, arg : {"m1"}, ok : {TRUE}, name : {"Test"},
          sig : {"invalid"}]

\* base.removeable(key): the sole remaining writer cannot be removed
Removeable(ws, k) ==
  ws # {k}

\* base.addWriter(key)
BaseAddWriter(ws, k) ==
  [writers |-> ws \cup {k}, threw |-> FALSE]

\* (mutant) base.removeWriter without the last-writer check
BaseRemoveWriterUnguarded(ws, k) ==
  [writers |-> ws \ {k}, threw |-> FALSE]

\* base.removeWriter(key): rejects the removal of the last writer
BaseRemoveWriter(ws, k) ==
  IF Removeable(ws, k)
    THEN [writers |-> ws \ {k}, threw |-> FALSE]
    ELSE [writers |-> ws, threw |-> TRUE]

\* (mutant) an add-writer handler that leaves the writer set alone
HandlerAddWriterNoop(v, ws, k) ==
  [writers |-> ws, threw |-> FALSE]

\* the add-writer handler (GigachatRoom: case 'member', action 'add')
HandlerAddWriter(v, ws, k) ==
  BaseAddWriter(ws, k)

\* (mutant) the removal carried out without asking base.removeable and
\* without the base refusing it
GuardedRemoveUnchecked(ws, k) ==
  [writers |-> ws \ {k}, threw |-> FALSE]

\* if (base.removeable(key)) await base.removeWriter(key)
GuardedRemove(ws, k) ==
  IF Removeable(ws, k) THEN BaseRemoveWriter(ws, k)
  ELSE [writers |-> ws, threw |-> FALSE]

\* (mutant) a remove-writer handler that leaves the writer set alone
HandlerRemoveWriterNoop(v, ws, k) ==
  [writers |-> ws, threw |-> FALSE]

\* the remove-writer handler; UserManager, RoomManager and GigachatRoom
\* (case 'member', action 'remove') ask base.removeable first
HandlerRemoveWriter(v, ws, k) ==
  IF v \in {"UserManager", "RoomManager", "GigachatRoom"}
    THEN GuardedRemove(ws, k)
    ELSE BaseRemoveWriter(ws, k)

\* view.insert: a document replaces the one with the same key
ViewInsert(vw, d) ==
  {x \in vw : x.id # d.id} \cup {d}

\* view.delete: the document with this key is gone
ViewDelete(vw, id) ==
  {x \in vw : x.id # id}

\* the handler the router calls for the entry e = logs[src[1]][src[2]]
\* (GigachatRoom: the switch on value.type).  The router rejects a payload
\* that does not decode; rej tells whether it rejects a command id it has no
\* handler for or returns without calling a handler.  GigachatRoom's switch
\* has no default case, and its member cases also keep a member document.
DispatchEntry(v, e, src, vw, ws, rej) ==
  IF ~e.ok
    THEN [view |-> vw, writers |-> ws, threw |-> TRUE]
  ELSE IF e.cmd = "unknown"
    THEN [view |-> vw, writers |-> ws, threw |-> rej /\ v # "GigachatRoom"]
    ELSE CASE e.cmd = "add-writer" ->
                LET r == HandlerAddWriter(v, ws, e.arg)
                IN  [view |-> IF v = "GigachatRoom" /\ ~r.threw
                                THEN ViewInsert(vw, [id |-> e.arg, src |-> src])
                                ELSE vw,
                     writers |-> r.writers, threw |-> r.threw]
           [] e.cmd = "remove-writer" ->
                LET r == HandlerRemoveWriter(v, ws, e.arg)
                IN  [view |-> IF v = "GigachatRoom" /\ Removeable(ws, e.arg)
                                THEN ViewDelete(vw, e.arg)
                                ELSE vw,
                     writers |-> r.writers, threw |-> r.threw]
           [] OTHER ->
                [view |-> ViewInsert(vw, [id |-> e.arg, src |-> src,
                                          name |-> e.name]),
                 writers |-> ws, threw |-> FALSE]

\* (mutant) a dispatch whose remove-writer also drops the documents the
\* removed key has written
RouterDispatchPurging(v, e, src, vw, ws, rej) ==
  LET r == DispatchEntry(v, e, src, vw, ws, rej)
  IN  IF e.ok /\ e.cmd = "remove-writer"
        THEN [r EXCEPT !.view = {d \in r.view : d.src[1] # e.arg}]
        ELSE r

\* router.dispatch(node.value, { view, base })
RouterDispatch(v, e, src, vw, ws, rej) ==
  DispatchEntry(v, e, src, vw, ws, rej)

\* node.value.type as RoomManager._apply reads it: node.value is the buffer
\* dispatch() encoded (command id first, then the payload), which has no
\* property named type
NodeValueType(e) ==
  "undefined"

\* _verifySignature(message): the HMAC of the message under the author key
\* equals the signature
VerifySignature(e) ==
  e.sig # "invalid"

\* RoomManager._apply skips the node (continue) before router.dispatch
SkipsNode(v, e) ==
  /\ v = "RoomManager"
  /\ NodeValueType(e) \in {"@room/add-message", "@room/edit-message",
                            "@room/add-file"}
  /\ ~VerifySignature(e)

\* _apply wraps each dispatch in its own try / catch
CatchesPerNode(v) ==
  v \in {"GigaRoom", "Gigauser1"}

\* (mutant) an _apply that never flushes
FlushesNever(v) ==
  FALSE

\* _apply ends with view.flush(); GigachatRoom._applyMessages has none
Flushes(v) ==
  v # "GigachatRoom"

\* the for loop of _apply from node i on; nodes[i] = <<writer, index>>;
\* st.done tells for every node whether its handler completed or failed
RECURSIVE ApplyLoop(_, _, _, _, _, _)
ApplyLoop(v, lg, nodes, i, st, rej) ==
  IF i > Len(nodes) THEN st
  ELSE
    LET src == nodes[i]
        r == RouterDispatch(v, lg[src[1]][src[2]], src, st.view, st.writers, rej)
        rec == [src |-> src, dispatched |-> ~r.threw, failed |-> r.threw,
                before |-> st.writers, after |-> r.writers]
    IN  IF SkipsNode(v, lg[src[1]][src[2]])
          THEN ApplyLoop(v, lg, nodes, i + 1,
                 [st EXCEPT !.done = Append(st.done,
                    [src |-> src, dispatched |-> FALSE, failed |-> FALSE,
                     before |-> st.writers, after |-> st.writers])], rej)
        ELSE IF ~r.threw
          THEN ApplyLoop(v, lg, nodes, i + 1,
                 [view |-> r.view, writers |-> r.writers, threw |-> FALSE,
                  done |-> Append(st.done, rec)], rej)
        ELSE IF CatchesPerNode(v)
          THEN ApplyLoop(v, lg, nodes, i + 1,
                 [st EXCEPT !.done = Append(st.done, rec)], rej)
        ELSE [st EXCEPT !.threw = TRUE,
                        !.done = Append(st.done, rec)
                                   \o [j \in 1..(Len(nodes) - i) |->
                                         [src |-> nodes[i + j], dispatched |-> FALSE,
                                          failed |-> FALSE, before |-> st.writers,
                                          after |-> st.writers]]]

\* _apply(nodes, view, base): the for loop over the nodes
Apply(v, lg, nodes, vw, ws, rej) ==
  ApplyLoop(v, lg, nodes, 1,
            [view |-> vw, writers |-> ws, threw |-> FALSE, done |-> <<>>], rej)

\* the nodes of a batch: order[i] is the writer whose next entry comes i-th
BatchNodes(order, cur) ==
  [i \in 1..Len(order) |->
     << order[i], cur[order[i]] + Cardinality({j \in 1..i : order[j] = order[i]}) >>]

TotalEntries(lg) ==
  Len(lg["X"]) + Len(lg["Y"])

ReplayFresh ==
  /\ logs = [k \in Keys |-> <<>>]
  /\ cursor = [k \in Keys |-> 0]
  /\ writers = {"X"}
  /\ view = {}
  /\ txview = {}
  /\ history = <<>>
  /\ lastBatch = <<>>
  /\ bstatus = "ok"

ReplayInit ==
  /\ rvariant \in ReplayVariants
  /\ ReplayFresh

ReplayIdle ==
  /\ rvariant = "GigaRoom"
  /\ ReplayFresh

\* a writer's log grows by one entry (a local append, or a remote log that is
\* replicated to this base)
AppendEntry(k, e) ==
  /\ TotalEntries(logs) < MaxEntries
  /\ logs' = [logs EXCEPT ![k] = Append(@, e)]
  /\ UNCHANGED << rvariant, cursor, writers, view, txview, history, lastBatch,
                  bstatus >>
  /\ ReplayFrame

\* the base hands _apply the next batch: the next entries of writers that are
\* in the writer set; a remove-writer entry ends its batch, so that the writer
\* set is consulted again before the entry that follows it.  _apply writes to
\* the view object; view.flush() after the loop commits what it wrote.  When
\* _apply throws, the base fails and nothing of the batch is committed.
Replay(order, rej) ==
  /\ bstatus = "ok"
  /\ LET nodes == BatchNodes(order, cursor) IN
     /\ \A i \in 1..Len(order) :
          /\ order[i] \in writers
          /\ nodes[i][2] <= Len(logs[order[i]])
          /\ i < Len(order) => logs[order[i]][nodes[i][2]].cmd # "remove-writer"
     /\ LET r == Apply(rvariant, logs, nodes, txview, writers, rej) IN
        /\ lastBatch' = r.done
        /\ txview' = r.view
        /\ IF r.threw
             THEN /\ bstatus' = "failed"
                  /\ UNCHANGED << cursor, writers, view, history >>
             ELSE /\ bstatus' = "ok"
                  /\ view' = IF Flushes(rvariant) THEN r.view ELSE view
                  /\ writers' = r.writers
                  /\ history' = history \o r.done
                  /\ cursor' = [k \in Keys |->
                                  cursor[k] + Cardinality({i \in 1..Len(order) : order[i] = k})]
  /\ UNCHANGED << rvariant, logs >>
  /\ ReplayFrame

ReplayNext ==
  \/ \E k \in Keys, e \in Entries : AppendEntry(k, e)
  \/ \E n \in 1..MaxBatch : \E order \in [1..n -> Keys], rej \in BOOLEAN :
       Replay(order, rej)

\* ------------------------------------------------------------------------
\* Part 4: two replicas of one room that receive the same logs in different
\* orders
\* ------------------------------------------------------------------------

\* at most this many entries over both logs
MaxConv ==
  3

\* replica A is the device of writer X, replica B the device of writer Y;
\* both keys are in the writer set of the room
Replicas ==
  {"A", "B"}

Home(k) ==
  IF k = "X" THEN "A" ELSE "B"

ConvVariants ==
  {"GigaRoom", "GigachatRoom"}

\* ids callers draw with crypto.randomBytes (channel ids, message ids)
NewIds ==
  1..MaxConv

\* keys the chat case draws with crypto.randomBytes(16) for a message that
\* has no id
RandKeys ==
  {100 + i : i \in 1..MaxConv}

\* how many entries of writer k are in the arrival sequence arr
Count(arr, k) ==
  Cardinality({i \in 1..Len(arr) : arr[i][1] = k})

\* the engine's order over the entries a replica holds: each writer's entries
\* in sequence, writers ordered by key
CanonSeq(arr) ==
  LET nx == Count(arr, "X")
      ny == Count(arr, "Y")
  IN  [i \in 1..(nx + ny) |-> IF i <= nx THEN << "X", i >> ELSE << "Y", i - nx >>]

\* the place of src in a sequence of entry references
IndexOf(seq, src) ==
  CHOOSE i \in 1..Len(seq) : seq[i] = src

\* the handler of one entry: '@gigaroom/create-channel' inserts the channel
\* under its id; GigachatRoom's case 'chat' inserts the message under
\* value.id || crypto.randomBytes(16), rk being the bytes drawn
ConvDispatch(v, e, src, vw, rk) ==
  IF e.cmd = "create-channel"
    THEN ViewInsert(vw, [id |-> e.id, src |-> src, position |-> e.position])
    ELSE ViewInsert(vw, [id |-> IF e.id # 0 THEN e.id ELSE rk, src |-> src,
                         position |-> 0])

\* replay of the entries order[i..] on the view vw; keyOf[j] is what
\* randomBytes returns while order[j] is applied
RECURSIVE ReplayFrom(_, _, _, _, _, _)
ReplayFrom(v, lg, order, i, vw, keyOf) ==
  IF i > Len(order) THEN vw
  ELSE ReplayFrom(v, lg, order, i + 1,
                  ConvDispatch(v, lg[order[i][1]][order[i][2]], order[i], vw, keyOf[i]),
                  keyOf)

\* (mutant) the documents in the order their entries arrived at this replica
RECURSIVE ChannelsFindArrival(_, _)
ChannelsFindArrival(docs, arr) ==
  IF docs = {} THEN << >>
  ELSE LET d == CHOOSE x \in docs :
                  \A y \in docs : IndexOf(arr, x.src) <= IndexOf(arr, y.src)
       IN  << d >> \o ChannelsFindArrival(docs \ {d}, arr)

\* view.find('@gigaroom/channel', {}): the documents in key (id) order; arr
\* is the replica's arrival sequence
RECURSIVE ChannelsFind(_, _)
ChannelsFind(docs, arr) ==
  IF docs = {} THEN << >>
  ELSE LET d == CHOOSE x \in docs : \A y \in docs : x.id <= y.id
       IN  << d >> \o ChannelsFind(docs \ {d}, arr)

\* Array.prototype.sort((a, b) => (a.position || 0) - (b.position || 0)):
\* a stable sort by position
RECURSIVE SortByPosition(_)
SortByPosition(seq) ==
  IF seq = << >> THEN << >>
  ELSE LET m == CHOOSE i \in 1..Len(seq) :
                  /\ \A j \in 1..Len(seq) : seq[i].position <= seq[j].position
                  /\ \A j \in 1..(i - 1) : seq[j].position # seq[i].position
           rest == [j \in 1..(Len(seq) - 1) |-> IF j < m THEN seq[j] ELSE seq[j + 1]]
       IN  << seq[m] >> \o SortByPosition(rest)

\* _refreshChannels: this._channels
RefreshChannels(docs, arr) ==
  SortByPosition(ChannelsFind(docs, arr))

\* (mutant) an _apply that never sets updates.channels
ChannelsFlagNever(v, cmds) ==
  FALSE

\* updates.channels after the loop of GigaRoom._apply over nodes with the
\* commands cmds: command.includes('channel')
ChannelsFlag(v, cmds) ==
  v = "GigaRoom" /\ "create-channel" \in cmds

\* the events GigaRoom._apply emits after the flush: 'update', then
\* 'channels:updated' once _refreshChannels is done, then 'update:complete';
\* GigachatRoom._applyMessages emits nothing
ApplyEvents(v, flag) ==
  IF v # "GigaRoom" THEN << >>
  ELSE IF flag THEN << "update", "channels:updated", "update:complete" >>
  ELSE << "update", "update:complete" >>

ConvTotal ==
  Len(clogs["X"]) + Len(clogs["Y"])

\* the ids in use in the logs
UsedIds ==
  {clogs[k][i].id : k \in {"X"}, i \in 1..Len(clogs["X"])}
    \cup {clogs[k][i].id : k \in {"Y"}, i \in 1..Len(clogs["Y"])}

ConvFresh ==
  /\ clogs = [k \in Keys |-> << >>]
  /\ arrival = [r \in Replicas |-> << >>]
  /\ cview = [r \in Replicas |-> {}]
  /\ channels = [r \in Replicas |-> << >>]
  /\ cevents = [r \in Replicas |-> << >>]

ConvInit ==
  /\ cvariant \in ConvVariants
  /\ ConvFresh

ConvIdle ==
  /\ cvariant = "GigaRoom"
  /\ ConvFresh

\* the entry src of the logs lg reaches replica r: the engine places it in its
\* order, keeps the effects of the entries ordered before it and replays the
\* entries from it on; rnd[j] is what randomBytes returns while the j-th entry
\* of the order is applied.  GigaRoom._apply then refreshes this._channels
\* when one of the nodes it was handed set updates.channels, and emits its
\* events.
Ingest(r, src, lg, rnd) ==
  LET newArr == Append(arrival[r], src)
      order == CanonSeq(newArr)
      p == IndexOf(order, src)
      old == cview[r]
      kept == {d \in old : IndexOf(order, d.src) < p}
      keyOf == [j \in 1..Len(order) |->
                  IF \E d \in kept : d.src = order[j]
                    THEN (CHOOSE d \in kept : d.src = order[j]).id
                    ELSE rnd[j]]
      new == ReplayFrom(cvariant, lg, order, 1, {}, keyOf)
      flag == ChannelsFlag(cvariant,
                {lg[order[j][1]][order[j][2]].cmd : j \in p..Len(order)})
  IN  /\ \A j \in p..Len(order) : \A d \in kept : rnd[j] # d.id
      /\ arrival' = [arrival EXCEPT ![r] = newArr]
      /\ cview' = [cview EXCEPT ![r] = new]
      /\ channels' = [channels EXCEPT ![r] =
                        IF flag THEN RefreshChannels(new, newArr) ELSE @]
      /\ cevents' = [cevents EXCEPT ![r] = ApplyEvents(cvariant, flag)]

\* what randomBytes may return during one replay: distinct keys
Draws ==
  {f \in [1..MaxConv -> RandKeys] : \A i, j \in 1..MaxConv : i # j => f[i] # f[j]}

\* GigaRoom.createChannel on the device of writer k: the channel gets a fresh
\* id and the position after the highest one in this._channels; base.append
\* applies the entry locally
CreateChannel(k, id, rnd) ==
  /\ cvariant = "GigaRoom"
  /\ ConvTotal < MaxConv
  /\ id \notin UsedIds
  /\ LET chs == channels[Home(k)]
         highestPos == CHOOSE q \in {chs[i].position : i \in 1..Len(chs)} :
                         \A i \in 1..Len(chs) : chs[i].position <= q
         position == IF Len(chs) > 0 THEN highestPos + 1 ELSE 0
         lg == [clogs EXCEPT ![k] =
                  Append(@, [cmd |-> "create-channel", id |-> id, position |-> position])]
     IN  /\ clogs' = lg
         /\ Ingest(Home(k), << k, Len(lg[k]) >>, lg, rnd)
  /\ UNCHANGED cvariant
  /\ ConvFrame

\* writer k appends a chat message to the GigachatRoom base: sendMessage
\* gives it a fresh id; id = 0 is a chat value appended without an id
AppendChat(k, id, rnd) ==
  /\ cvariant = "GigachatRoom"
  /\ ConvTotal < MaxConv
  /\ id \notin UsedIds \ {0}
  /\ LET lg == [clogs EXCEPT ![k] =
                  Append(@, [cmd |-> "chat", id |-> id, position |-> 0])]
     IN  /\ clogs' = lg
         /\ Ingest(Home(k), << k, Len(lg[k]) >>, lg, rnd)
  /\ UNCHANGED cvariant
  /\ ConvFrame

\* the next entry of writer k's log is replicated to the other replica
Deliver(r, k, rnd) ==
  /\ Home(k) # r
  /\ Count(arrival[r], k) < Len(clogs[k])
  /\ Ingest(r, << k, Count(arrival[r], k) + 1 >>, clogs, rnd)
  /\ UNCHANGED << cvariant, clogs >>
  /\ ConvFrame

ConvNext ==
  \/ \E k \in Keys, id \in NewIds, rnd \in Draws : CreateChannel(k, id, rnd)
  \/ \E k \in Keys, id \in NewIds \cup {0}, rnd \in Draws : AppendChat(k, id, rnd)
  \/ \E r \in Replicas, k \in Keys, rnd \in Draws : Deliver(r, k, rnd)

\* ------------------------------------------------------------------------
\* Part 5: the methods that append an entry to the local log
\* ------------------------------------------------------------------------

\* the local log holds at most this many entries
MaxAppend ==
  4

\* methods that call base.append
Apis ==
  {"GigaRoom.addWriter", "Gigauser.addWriter", "GigachatRoom.sendMessage",
   "RoomManager.addWriter", "RoomManager.sendMessage", "UserManager.addWriter",
   "UserManager.updateProfile", "UserManager.updateSettings"}

\* the method tests this.base.writable itself and throws Error('Not writable')
ChecksWritable(api) ==
  api \in {"RoomManager.addWriter", "RoomManager.sendMessage",
           "UserManager.updateProfile", "UserManager.updateSettings"}

\* the method's catch block logs the error and returns false
ReturnsFalseOnError(api) ==
  api \in {"UserManager.addWriter", "UserManager.updateProfile",
           "UserManager.updateSettings"}

\* base.append(value): stores the entry at the end of the local log, or fails
\* when the local key is not in the writer set
BaseAppend(w, n) ==
  IF w THEN [len |-> n + 1, threw |-> FALSE]
  ELSE [len |-> n, threw |-> TRUE]

\* one call of the method: how it ends and the log length it leaves
CallApi(api, w, n) ==
  LET r == IF ChecksWritable(api) /\ ~w
             THEN [len |-> n, threw |-> TRUE]
             ELSE BaseAppend(w, n)
  IN  [api |-> api,
       writable |-> w,
       result |-> IF ~r.threw THEN "returned"
                  ELSE IF ReturnsFalseOnError(api) THEN "false"
                  ELSE "threw",
       grew |-> r.len # n,
       len |-> r.len]

NoCall ==
  [api |-> "none", writable |-> TRUE, result |-> "none", grew |-> FALSE, len |-> 0]

\* the writer key of the local device (base.writerKey); its hex form is the id
\* _registerCurrentDevice gives the current device
LocalWriterKey ==
  "X"

\* ids addDevice may be given: the hex form of a writer key, or another string
DeviceIds ==
  {"X", "Y", "d9"}

NoRemoval ==
  [id |-> "none", result |-> "none", cmds |-> << >>]

AppendFresh ==
  /\ awritable = TRUE
  /\ alen = 0
  /\ acall = NoCall
  /\ adevices = {}
  /\ alast = NoRemoval

\* the local device calls a method that appends
LocalAppend(api) ==
  /\ alen < MaxAppend
  /\ LET c == CallApi(api, awritable, alen)
     IN  /\ acall' = c
         /\ alen' = c.len
  /\ UNCHANGED << awritable, adevices, alast >>
  /\ AppendFrame

\* the replay of an add-writer / remove-writer entry for the local key changes
\* base.writable
WritableChange ==
  /\ awritable' = ~awritable
  /\ UNCHANGED << alen, acall, adevices, alast >>
  /\ AppendFrame

\* UserManager.addDevice({ id, publicKey }): returns false when the base is not
\* writable; otherwise appends add-device, whose handler replaces the
\* document with that id
AddDevice(id, pk) ==
  /\ alen < MaxAppend
  /\ IF awritable
       THEN /\ alen' = alen + 1
            /\ adevices' = {d \in adevices : d.id # id} \cup {[id |-> id, pk |-> pk]}
       ELSE UNCHANGED << alen, adevices >>
  /\ UNCHANGED << awritable, acall, alast >>
  /\ AppendFrame

\* (mutant) a removeDevice that does not compare the id with the writer key
IsCurrentDeviceNever(id) ==
  FALSE

\* deviceId === b4a.toString(this.base.writerKey, 'hex')
IsCurrentDevice(id) ==
  id = LocalWriterKey

\* UserManager.removeDevice(id); rm is what base.removeable answers for the
\* device's key.  Not writable, unknown device and current device all end in
\* return false before anything is appended.  Otherwise removeWriter appends
\* remove-writer when the key is removeable, then remove-device is appended;
\* when the removed writer is the local one that second append throws and
\* the catch block returns false.
RemoveDevice(id, rm) ==
  /\ alen + 2 <= MaxAppend
  /\ LET found == \E d \in adevices : d.id = id
         device == CHOOSE d \in adevices : d.id = id
     IN  IF ~awritable \/ ~found \/ IsCurrentDevice(id)
           THEN /\ alast' = [id |-> id, result |-> "false", cmds |-> << >>]
                /\ UNCHANGED << awritable, alen, adevices >>
         ELSE IF rm /\ device.pk = LocalWriterKey
           THEN /\ alast' = [id |-> id, result |-> "false",
                             cmds |-> << "remove-writer" >>]
                /\ awritable' = FALSE
                /\ alen' = alen + 1
                /\ UNCHANGED adevices
         ELSE /\ alast' = [id |-> id, result |-> "true",
                           cmds |-> IF rm THEN << "remove-writer", "remove-device" >>
                                    ELSE << "remove-device" >>]
              /\ alen' = alen + (IF rm THEN 2 ELSE 1)
              /\ adevices' = {d \in adevices : d.id # id}
              /\ UNCHANGED awritable
  /\ UNCHANGED acall
  /\ AppendFrame

AppendNext ==
  \/ \E api \in Apis : LocalAppend(api)
  \/ WritableChange
  \/ \E id \in DeviceIds, pk \in Keys : AddDevice(id, pk)
  \/ \E id \in DeviceIds, rm \in BOOLEAN : RemoveDevice(id, rm)

\* ------------------------------------------------------------------------
\* Part 6: two paired devices of one user (second and third Gigauser draft)
\* ------------------------------------------------------------------------

\* the user's methods append at most this many entries after the pairing
MaxUserOps ==
  3

\* D1 created the user, D2 was paired with D1's invite
Devices ==
  {"D1", "D2"}

Other(d) ==
  IF d = "D1" THEN "D2" ELSE "D1"

\* the drafts that keep the identity in the log
DevVariants ==
  {"Gigauser2", "Gigauser3"}

RoomIds ==
  {"ra", "rb"}

ProfileNames ==
  {"p1"}

SettingsValues ==
  {"s1"}

\* the position of a command in the order the commands are registered
CommandIndex(cmd) ==
  CASE cmd = "remove-writer" -> 0
    [] cmd = "add-writer" -> 1
    [] cmd = "add-invite" -> 2
    [] cmd = "set-profile" -> 3
    [] cmd = "update-rooms" -> 4
    [] cmd = "update-devices" -> 5
    [] cmd = "update-settings" -> 6
    [] cmd = "set-identity" -> 7

\* node.value[0]: the id the generated dispatch encodes the command with
CommandId(base, cmd) ==
  base + CommandIndex(cmd)

\* _getCommandNameById of the third draft
GetCommandNameById(id) ==
  CASE id = 1 -> "remove-writer"
    [] id = 2 -> "add-writer"
    [] id = 3 -> "add-invite"
    [] id = 4 -> "set-profile"
    [] id = 5 -> "update-rooms"
    [] id = 6 -> "update-devices"
    [] id = 7 -> "update-settings"
    [] id = 8 -> "set-identity"
    [] OTHER -> "unknown-command"

\* command.includes(word), for the words _apply looks for
Includes(command, word) ==
  \/ word = "identity" /\ command = "set-identity"
  \/ word = "profile" /\ command = "set-profile"
  \/ word = "rooms" /\ command = "update-rooms"
  \/ word = "devices" /\ command = "update-devices"
  \/ word = "settings" /\ command = "update-settings"

\* an entry of the user's log; rooms is the list an update-rooms entry
\* carries, val the value of every other command
UserEntry(cmd, val, rooms, by) ==
  [cmd |-> cmd, val |-> val, rooms |-> rooms, by |-> by]

\* the view of a user: one document per collection, all under the user's key
EmptyUserView ==
  [identity |-> "none", profile |-> "none", hasRooms |-> FALSE,
   rooms |-> << >>, settings |-> "none"]

\* the handlers of the user's router: each deletes the document under the
\* key and inserts the payload
UserDispatch(e, vw) ==
  CASE e.cmd = "set-identity" -> [vw EXCEPT !.identity = e.val]
    [] e.cmd = "set-profile" -> [vw EXCEPT !.profile = e.val]
    [] e.cmd = "update-rooms" -> [vw EXCEPT !.hasRooms = TRUE, !.rooms = e.rooms]
    [] e.cmd = "update-settings" -> [vw EXCEPT !.settings = e.val]
    [] OTHER -> vw

\* the view after the replay of the entries at the positions ks of lg that
\* are not after position n, in the order of lg
RECURSIVE ViewUpTo(_, _, _)
ViewUpTo(lg, ks, n) ==
  IF n = 0 THEN EmptyUserView
  ELSE LET vw == ViewUpTo(lg, ks, n - 1)
       IN  IF n \in ks THEN UserDispatch(lg[n], vw) ELSE vw

\* what the constructor leaves in publicKey, _profile, _rooms and _settings
NewCache ==
  [pk |-> "none", profile |-> "none", rooms |-> << >>, settings |-> "none"]

\* (mutant) a refresh that never reads the identity document
RefreshIdentityNever(c, vw) ==
  c

\* the identity part of _loadUserData / _refreshIdentity
RefreshIdentity(c, vw) ==
  IF vw.identity # "none" THEN [c EXCEPT !.pk = vw.identity] ELSE c

\* _loadUserData of the second draft (refreshUser)
LoadUserData(c, vw) ==
  LET c1 == RefreshIdentity(c, vw)
  IN  IF c1.pk = "none" THEN c1
      ELSE [c1 EXCEPT !.profile = IF vw.profile # "none" THEN vw.profile ELSE @,
                      !.rooms = IF vw.hasRooms THEN vw.rooms ELSE @,
                      !.settings = IF vw.settings # "none" THEN vw.settings ELSE @]

\* refreshSettings of the second draft
RefreshSettings2(c, vw) ==
  IF c.pk = "none" \/ vw.settings = "none" THEN c
  ELSE [c EXCEPT !.settings = vw.settings]

\* the third draft's refreshers first load the identity when publicKey is
\* not set, and leave the field alone when the document is missing
WithIdentity(c, vw) ==
  IF c.pk = "none" THEN RefreshIdentity(c, vw) ELSE c

RefreshProfile(c, vw) ==
  LET c1 == WithIdentity(c, vw)
  IN  IF c1.pk = "none" \/ vw.profile = "none" THEN c1
      ELSE [c1 EXCEPT !.profile = vw.profile]

RefreshRooms(c, vw) ==
  LET c1 == WithIdentity(c, vw)
  IN  IF c1.pk = "none" \/ ~vw.hasRooms THEN c1
      ELSE [c1 EXCEPT !.rooms = vw.rooms]

RefreshDevices(c, vw) ==
  WithIdentity(c, vw)

RefreshSettings(c, vw) ==
  LET c1 == WithIdentity(c, vw)
  IN  IF c1.pk = "none" \/ vw.settings = "none" THEN c1
      ELSE [c1 EXCEPT !.settings = vw.settings]

\* _loadUserData of the third draft
LoadUserData3(c, vw) ==
  RefreshSettings(RefreshDevices(RefreshRooms(RefreshProfile(
    RefreshIdentity(c, vw), vw), vw), vw), vw)

\* what _open loads
OpenLoad(v, c, vw) ==
  IF v = "Gigauser2" THEN LoadUserData(c, vw) ELSE LoadUserData3(c, vw)

\* second draft _apply, the part after the dispatch of one node: ids 7 and 3
\* call refreshUser, id 6 calls refreshSettings; the second test for id 7 is
\* never reached
NodeRefresh2(c, id, vw) ==
  IF id = 7 \/ id = 3 THEN LoadUserData(c, vw)
  ELSE IF id = 6 THEN RefreshSettings2(c, vw)
  ELSE c

\* second draft _apply over the nodes (positions of lg): the refresh of a
\* node reads the view object as the dispatches so far have left it
RECURSIVE ApplyNodes2(_, _, _, _, _, _)
ApplyNodes2(base, lg, ks, nodes, i, c) ==
  IF i > Len(nodes) THEN c
  ELSE ApplyNodes2(base, lg, ks, nodes, i + 1,
         NodeRefresh2(c, CommandId(base, lg[nodes[i]].cmd),
                      ViewUpTo(lg, ks, nodes[i])))

\* third draft _apply: the flags are set from the names of the nodes'
\* commands, the refreshers run after the flush
ApplyNodes3(base, lg, ks, nodes, c) ==
  LET names == {GetCommandNameById(CommandId(base, lg[nodes[i]].cmd)) :
                  i \in 1..Len(nodes)}
      flag(w) == \E nm \in names : Includes(nm, w)
      vw == ViewUpTo(lg, ks, Len(lg))
      c1 == IF flag("identity") THEN RefreshIdentity(c, vw) ELSE c
      c2 == IF flag("profile") THEN RefreshProfile(c1, vw) ELSE c1
      c3 == IF flag("rooms") THEN RefreshRooms(c2, vw) ELSE c2
      c4 == IF flag("devices") THEN RefreshDevices(c3, vw) ELSE c3
  IN  IF flag("settings") THEN RefreshSettings(c4, vw) ELSE c4

\* _apply on a device that holds the positions ks, for the nodes the base
\* hands it
UserApply(v, base, lg, ks, nodes, c) ==
  IF v = "Gigauser2" THEN ApplyNodes2(base, lg, ks, nodes, 1, c)
  ELSE ApplyNodes3(base, lg, ks, nodes, c)

\* the positions of a set in increasing order
RECURSIVE SortedSeq(_)
SortedSeq(s) ==
  IF s = {} THEN << >>
  ELSE LET m == CHOOSE x \in s : \A y \in s : x <= y
       IN  << m >> \o SortedSeq(s \ {m})

\* the log the creation of the user and the pairing of D2 leave: D1's
\* createIdentity, its initial profile, the invite and the add-writer entry
\* the member appended for D2
PairedLog ==
  << UserEntry("set-identity", "pk", << >>, "D1"),
     UserEntry("set-profile", "p0", << >>, "D1"),
     UserEntry("add-invite", "i1", << >>, "D1"),
     UserEntry("add-writer", "D2", << >>, "D1") >>

NoUserOp ==
  [op |-> "none", dev |-> "D1"]

DevView(d) ==
  ViewUpTo(glog, known[d], Len(glog))

\* base.writable of a device
DevWritable(d) ==
  d = "D1" \/ \E n \in known[d] : glog[n].cmd = "add-writer" /\ glog[n].val = d

DevInit ==
  /\ dvariant \in DevVariants
  /\ idBase \in {0, 1}
  /\ glog = PairedLog
  /\ known = [d \in Devices |-> IF d = "D1" THEN 1..Len(PairedLog) ELSE {}]
  /\ dcache = [d \in Devices |->
                 IF d = "D1"
                   THEN [pk |-> "pk", profile |-> "p0", rooms |-> << >>,
                         settings |-> "none"]
                   ELSE NewCache]
  /\ dstate = [d \in Devices |-> IF d = "D1" THEN "paired" ELSE "new"]
  /\ dop = NoUserOp

DevIdle ==
  /\ dvariant = "Gigauser2"
  /\ idBase = 0
  /\ glog = << >>
  /\ known = [d \in Devices |-> {}]
  /\ dcache = [d \in Devices |-> NewCache]
  /\ dstate = [d \in Devices |-> "new"]
  /\ dop = NoUserOp

\* _open of the Gigauser the pairer constructed: _loadUserData reads what the
\* view holds at that moment
DeviceOpen(d) ==
  /\ dstate[d] = "new"
  /\ dstate' = [dstate EXCEPT ![d] = "open"]
  /\ dcache' = [dcache EXCEPT ![d] = OpenLoad(dvariant, @, DevView(d))]
  /\ dop' = [op |-> "open", dev |-> d]
  /\ UNCHANGED << dvariant, idBase, glog, known >>
  /\ DevFrame

\* pairDevice returns: the pairer resolved (the device is writable) and
\* user.ready() has completed
PairDeviceReturns(d) ==
  /\ dstate[d] = "open"
  /\ DevWritable(d)
  /\ dstate' = [dstate EXCEPT ![d] = "paired"]
  /\ dop' = [op |-> "pairDevice", dev |-> d]
  /\ UNCHANGED << dvariant, idBase, glog, known, dcache >>
  /\ DevFrame

\* the device receives the next entry it does not hold; the base goes back
\* to that position and hands _apply the entry and the entries the device
\* holds after it
DevReceive(d) ==
  /\ known[d] # 1..Len(glog)
  /\ LET n == CHOOSE x \in (1..Len(glog)) \ known[d] :
                \A y \in (1..Len(glog)) \ known[d] : x <= y
         ks == known[d] \cup {n}
         nodes == SortedSeq({x \in ks : x >= n})
     IN  /\ known' = [known EXCEPT ![d] = ks]
         /\ dcache' = [dcache EXCEPT ![d] =
                         UserApply(dvariant, idBase, glog, ks, nodes, @)]
  /\ dop' = [op |-> "receive", dev |-> d]
  /\ UNCHANGED << dvariant, idBase, glog, dstate >>
  /\ DevFrame

\* a method of the user can append: the device is paired and writable, the
\* identity is loaded, and the bound is not reached
CanAppend(d) ==
  /\ dstate[d] = "paired"
  /\ DevWritable(d)
  /\ dcache[d].pk # "none"
  /\ Len(glog) < Len(PairedLog) + MaxUserOps

\* base.append(entry) on device d with the cache c the method has prepared:
\* the entry is ordered after the entries written so far and the base
\* applies it on the device
UserAppend(d, e, c) ==
  LET lg == Append(glog, e)
      ks == known[d] \cup {Len(lg)}
  IN  /\ glog' = lg
      /\ known' = [known EXCEPT ![d] = ks]
      /\ dcache' = [dcache EXCEPT ![d] =
                      UserApply(dvariant, idBase, lg, ks, << Len(lg) >>, c)]

\* addRoom(roomData): updates the cached list and appends the whole list
AddRoom(d, r) ==
  /\ CanAppend(d)
  /\ LET c == dcache[d]
         rs == IF \E i \in 1..Len(c.rooms) : c.rooms[i] = r
                 THEN c.rooms ELSE Append(c.rooms, r)
     IN  UserAppend(d, UserEntry("update-rooms", "none", rs, d),
                    [c EXCEPT !.rooms = rs])
  /\ dop' = [op |-> "addRoom", dev |-> d]
  /\ UNCHANGED << dvariant, idBase, dstate >>
  /\ DevFrame

\* updateProfile(profileData): appends the merged profile, then refreshUser
\* (second draft) or _refreshProfile (third draft)
UpdateProfile(d, p) ==
  /\ CanAppend(d)
  /\ LET lg == Append(glog, UserEntry("set-profile", p, << >>, d))
         ks == known[d] \cup {Len(lg)}
         c1 == UserApply(dvariant, idBase, lg, ks, << Len(lg) >>,
                         [dcache[d] EXCEPT !.profile = p])
         vw == ViewUpTo(lg, ks, Len(lg))
     IN  /\ glog' = lg
         /\ known' = [known EXCEPT ![d] = ks]
         /\ dcache' = [dcache EXCEPT ![d] =
                         IF dvariant = "Gigauser2" THEN LoadUserData(c1, vw)
                         ELSE RefreshProfile(c1, vw)]
  /\ dop' = [op |-> "updateProfile", dev |-> d]
  /\ UNCHANGED << dvariant, idBase, dstate >>
  /\ DevFrame

\* updateSettings(settingsData): appends the merged settings
UpdateSettings(d, s) ==
  /\ CanAppend(d)
  /\ UserAppend(d, UserEntry("update-settings", s, << >>, d),
                [dcache[d] EXCEPT !.settings = s])
  /\ dop' = [op |-> "updateSettings", dev |-> d]
  /\ UNCHANGED << dvariant, idBase, dstate >>
  /\ DevFrame

\* the instance is closed and created again over the same store: the
\* constructor resets the cache and _open loads it from the view
Reopen(d) ==
  /\ dstate[d] = "paired"
  /\ dop # [op |-> "reopen", dev |-> d]
  /\ dcache' = [dcache EXCEPT ![d] = OpenLoad(dvariant, NewCache, DevView(d))]
  /\ dop' = [op |-> "reopen", dev |-> d]
  /\ UNCHANGED << dvariant, idBase, glog, known, dstate >>
  /\ DevFrame

DevNext ==
  \/ \E d \in Devices : DeviceOpen(d)
  \/ \E d \in Devices : PairDeviceReturns(d)
  \/ \E d \in Devices : DevReceive(d)
  \/ \E d \in Devices, r \in RoomIds : AddRoom(d, r)
  \/ \E d \in Devices, p \in ProfileNames : UpdateProfile(d, p)
  \/ \E d \in Devices, s \in SettingsValues : UpdateSettings(d, s)
  \/ \E d \in Devices : Reopen(d)

\* ------------------------------------------------------------------------
\* Part 7: a GigaRoom, its creator and a user who joins through an invite
\* ------------------------------------------------------------------------

\* at most this many createChannel calls next to the creation and the join
MaxRoomOps ==
  2

\* at most this many nodes in one _apply call of a replica that catches up
MaxJoinBatch ==
  2

\* the member ids crypto.randomBytes(8) may give addMember
MemberIds ==
  {1, 2}

\* the identity key of the user on the device of room writer k
UserKeyOf(k) ==
  IF k = "X" THEN "uc" ELSE "uj"

\* the replica that is not r, and the writer whose device r is not
Peer(r) ==
  IF r = "A" THEN "B" ELSE "A"

RemoteWriter(r) ==
  IF r = "A" THEN "Y" ELSE "X"

\* an entry of the room's logs: id is the member or channel id, key the
\* writer key of add-writer and the user key of add-member
JEntry(cmd, id, key) ==
  [cmd |-> cmd, id |-> id, key |-> key]

\* the position of a command in the registration order of the generated
\* dispatch (namespace.register calls of the @gigaroom schema)
RoomCommandIndex(cmd) ==
  CASE cmd = "remove-writer" -> 0
    [] cmd = "add-writer" -> 1
    [] cmd = "add-invite" -> 2
    [] cmd = "create-room" -> 3
    [] cmd = "update-room" -> 4
    [] cmd = "add-member" -> 5
    [] cmd = "update-member" -> 6
    [] cmd = "remove-member" -> 7
    [] cmd = "create-channel" -> 12

\* node.value[0] for a command, the first registered command having id base
RoomCommandId(base, cmd) ==
  base + RoomCommandIndex(cmd)

\* GigaRoom._getCommandNameById
RoomCommandName(id) ==
  CASE id = 0 -> "remove-writer"
    [] id = 1 -> "add-writer"
    [] id = 2 -> "add-invite"
    [] id = 3 -> "create-room"
    [] id = 4 -> "update-room"
    [] id = 5 -> "add-member"
    [] id = 6 -> "update-member"
    [] id = 7 -> "remove-member"
    [] id = 8 -> "create-role"
    [] id = 12 -> "create-channel"
    [] id = 13 -> "update-channel"
    [] OTHER -> "unknown-command"

\* (mutant) a name in which _apply finds none of its words
RoomIncludesNever(command, word) ==
  FALSE

\* command.includes(word), for the words 'room' and 'member'
RoomIncludes(command, word) ==
  \/ word = "room" /\ command \in {"create-room", "update-room"}
  \/ word = "member"
       /\ command \in {"add-member", "update-member", "remove-member"}

\* updates.room and updates.members after the loop of _apply over nodes with
\* the commands cmds
JFlags(base, cmds) ==
  [room |-> \E c \in cmds :
              RoomIncludes(RoomCommandName(RoomCommandId(base, c)), "room"),
   members |-> \E c \in cmds :
                 RoomIncludes(RoomCommandName(RoomCommandId(base, c)), "member")]

\* the entries of writer k that a replica holding hd[k] of them has
JEntriesOf(lg, hd, k) ==
  {lg[k][i] : i \in 1..hd[k]}

JKeysAdded(es) ==
  {e.key : e \in {x \in es : x.cmd = "add-writer"}}

\* the writer set a replica derives from the entries it holds
JWriters(lg, hd) ==
  LET fromX == JKeysAdded(JEntriesOf(lg, hd, "X"))
  IN  {"X"} \cup fromX
        \cup (IF "Y" \in fromX THEN JKeysAdded(JEntriesOf(lg, hd, "Y")) ELSE {})

\* the entries the base has applied on that replica
JApplied(lg, hd) ==
  JEntriesOf(lg, hd, "X")
    \cup (IF "Y" \in JWriters(lg, hd) THEN JEntriesOf(lg, hd, "Y") ELSE {})

\* view.find('@gigaroom/member', {}): one document per add-member entry
JMemberDocs(lg, hd) ==
  {[id |-> e.id, userKey |-> e.key] :
     e \in {x \in JApplied(lg, hd) : x.cmd = "add-member"}}

\* base.writable on replica r
JWritable(r, lg, hd) ==
  (IF r = "A" THEN "X" ELSE "Y") \in JWriters(lg, hd)

\* _refreshRoom: this.id becomes the id of the room document, if there is one
RefreshRoomId(cur, lg, hd) ==
  IF \E e \in JApplied(lg, hd) : e.cmd = "create-room" THEN "r1" ELSE cur

\* the caches of replica r after an _apply over nodes with the commands cmds
JApplyCaches(r, lg, hd, cmds) ==
  LET f == JFlags(jbase, cmds)
  IN  [members |-> IF f.members THEN JMemberDocs(lg, hd) ELSE jmembers[r],
       roomId |-> IF f.room THEN RefreshRoomId(jroomId[r], lg, hd)
                  ELSE jroomId[r]]

\* _loadRoomData: every cache is read from the view
JLoadRoomData(r, lg, hd) ==
  [members |-> JMemberDocs(lg, hd),
   roomId |-> RefreshRoomId(jroomId[r], lg, hd)]

\* (mutant) an addMember that appends the member and never calls addWriter
AddMemberResultNoWriter(r, m, key) ==
  LET k == IF r = "A" THEN "X" ELSE "Y"
      roomId == RefreshRoomId(jroomId[r], jlogs, jheld[r])
      ok == JWritable(r, jlogs, jheld[r]) /\ roomId # "null"
      lg == IF ok
              THEN [jlogs EXCEPT ![k] = Append(@, JEntry("add-member", m, key))]
              ELSE jlogs
      hd == [jheld[r] EXCEPT ![k] = Len(lg[k])]
  IN  [ok |-> ok, logs |-> lg, held |-> hd,
       members |-> IF ok THEN JMemberDocs(lg, hd) ELSE jmembers[r],
       roomId |-> roomId]

\* addMember({ userKey: key }) on replica r with member id m: _refreshRoom
\* when this.id is not set, then base.append of the add-member entry, which
\* throws when the base is not writable or the entry lacks its required
\* roomId; then addWriter(userKey) and _loadRoomData
AddMemberResult(r, m, key) ==
  LET k == IF r = "A" THEN "X" ELSE "Y"
      roomId == RefreshRoomId(jroomId[r], jlogs, jheld[r])
      ok == JWritable(r, jlogs, jheld[r]) /\ roomId # "null"
      lg == IF ok
              THEN [jlogs EXCEPT ![k] = @ \o << JEntry("add-member", m, key),
                                                 JEntry("add-writer", 0, key) >>]
              ELSE jlogs
      hd == [jheld[r] EXCEPT ![k] = Len(lg[k])]
  IN  [ok |-> ok, logs |-> lg, held |-> hd,
       members |-> IF ok THEN JMemberDocs(lg, hd) ELSE jmembers[r],
       roomId |-> roomId]

UsedMemberIds ==
  {e.id : e \in {x \in JEntriesOf(jlogs, [k \in Keys |-> Len(jlogs[k])], "X")
                        \cup JEntriesOf(jlogs, [k \in Keys |-> Len(jlogs[k])], "Y") :
                   x.cmd = "add-member"}}

\* how many createChannel calls there have been
JChannelCount ==
  Cardinality({i \in 1..Len(jlogs["X"]) : jlogs["X"][i].cmd = "create-channel"})
    + Cardinality({i \in 1..Len(jlogs["Y"]) : jlogs["Y"][i].cmd = "create-channel"})

JoinFresh ==
  /\ jlogs = [k \in Keys |-> << >>]
  /\ jheld = [r \in Replicas |-> [k \in Keys |-> 0]]
  /\ jmembers = [r \in Replicas |-> {}]
  /\ jroomId = [r \in Replicas |-> "null"]
  /\ jcreate = "new"
  /\ jjoin = "none"

JoinInit ==
  /\ jbase \in {0, 1}
  /\ JoinFresh

JoinIdle ==
  /\ jbase = 0
  /\ JoinFresh

\* replica r appends entry e to its own log; base.append applies it locally
JLocalAppend(r, e) ==
  LET k == IF r = "A" THEN "X" ELSE "Y"
      lg == [jlogs EXCEPT ![k] = Append(@, e)]
      hd == [jheld[r] EXCEPT ![k] = Len(lg[k])]
      c == JApplyCaches(r, lg, hd, {e.cmd})
  IN  /\ jlogs' = lg
      /\ jheld' = [jheld EXCEPT ![r] = hd]
      /\ jmembers' = [jmembers EXCEPT ![r] = c.members]
      /\ jroomId' = [jroomId EXCEPT ![r] = c.roomId]

\* createRoom up to its first append: this.id = roomData.id, then the
\* create-room entry
CreateRoomAppend ==
  /\ jcreate = "new"
  /\ LET lg == [jlogs EXCEPT !["X"] = Append(@, JEntry("create-room", 0, "none"))]
         hd == [jheld["A"] EXCEPT !["X"] = Len(lg["X"])]
         c == JApplyCaches("A", lg, hd, {"create-room"})
     IN  /\ jlogs' = lg
         /\ jheld' = [jheld EXCEPT !["A"] = hd]
         /\ jmembers' = [jmembers EXCEPT !["A"] = c.members]
         /\ jroomId' = [jroomId EXCEPT !["A"] = "r1"]
  /\ jcreate' = "appended"
  /\ UNCHANGED << jbase, jjoin >>
  /\ JoinFrame

\* the rest of createRoom: addMember for the creator, _loadRoomData
CreateRoomAddMember(m) ==
  /\ jcreate = "appended"
  /\ m \notin UsedMemberIds
  /\ LET res == AddMemberResult("A", m, UserKeyOf("X"))
     IN  /\ jlogs' = res.logs
         /\ jheld' = [jheld EXCEPT !["A"] = res.held]
         /\ jmembers' = [jmembers EXCEPT !["A"] = res.members]
         /\ jroomId' = [jroomId EXCEPT !["A"] = res.roomId]
         /\ jcreate' = IF res.ok THEN "done" ELSE "failed"
  /\ UNCHANGED << jbase, jjoin >>
  /\ JoinFrame

JHasInvite ==
  \E i \in 1..Len(jlogs["X"]) : jlogs["X"][i].cmd = "add-invite"

\* room.createInvite() on the creator's device
RoomCreateInvite ==
  /\ jcreate = "done"
  /\ ~JHasInvite
  /\ JLocalAppend("A", JEntry("add-invite", 0, "none"))
  /\ UNCHANGED << jbase, jcreate, jjoin >>
  /\ JoinFrame

\* Gigauser.joinRoom(inviteCode): GigaRoom.joinRoom starts the pairer and the
\* timeout, with opts.userKey the joiner's identity key
JoinRoomStart ==
  /\ jjoin = "none"
  /\ JHasInvite
  /\ jjoin' = "pairing"
  /\ UNCHANGED << jbase, jlogs, jheld, jmembers, jroomId, jcreate >>
  /\ JoinFrame

\* the creator's responder admits the candidate: addWriter(candidate.userData)
\* and confirm; the candidate's onadd constructs the room and, its base not
\* being writable yet, registers check on 'update'
RoomMemberOnadd ==
  /\ jjoin = "pairing"
  /\ JLocalAppend("A", JEntry("add-writer", 0, "Y"))
  /\ jjoin' = "confirmed"
  /\ UNCHANGED << jbase, jcreate >>
  /\ JoinFrame

\* the next n entries of the other writer's log reach replica r and are
\* handed to _apply; on the joiner's device the check listener of the pairer
\* then runs: if the base has become writable it calls _loadRoomData and
\* resolves the promise joinRoom awaits
JoinDeliver(r, n) ==
  LET k == RemoteWriter(r)
      from == jheld[r][k]
      hd == [jheld[r] EXCEPT ![k] = from + n]
      applied == k = "X" \/ "Y" \in JWriters(jlogs, hd)
      cmds == IF applied THEN {jlogs[k][i].cmd : i \in (from + 1)..(from + n)}
              ELSE {}
      c == JApplyCaches(r, jlogs, hd, cmds)
      resolves == r = "B" /\ jjoin = "confirmed" /\ JWritable("B", jlogs, hd)
      l == JLoadRoomData(r, jlogs, hd)
  IN  /\ from + n <= Len(jlogs[k])
      /\ r = "B" => jjoin \notin {"none", "pairing"}
      /\ jheld' = [jheld EXCEPT ![r] = hd]
      /\ jmembers' = [jmembers EXCEPT ![r] = IF resolves THEN l.members ELSE c.members]
      /\ jroomId' = [jroomId EXCEPT ![r] = IF resolves THEN l.roomId ELSE c.roomId]
      /\ jjoin' = IF resolves THEN "resolved" ELSE jjoin
      /\ UNCHANGED << jbase, jlogs, jcreate >>
      /\ JoinFrame

\* joinRoom after the race: room.ready(), then room.addMember for the joiner
\* inside a try / catch that only logs; the room is returned either way
JoinRoomAddMember(m) ==
  /\ jjoin = "resolved"
  /\ m \notin UsedMemberIds
  /\ LET res == AddMemberResult("B", m, UserKeyOf("Y"))
     IN  /\ jlogs' = res.logs
         /\ jheld' = [jheld EXCEPT !["B"] = res.held]
         /\ jmembers' = [jmembers EXCEPT !["B"] = res.members]
         /\ jroomId' = [jroomId EXCEPT !["B"] = res.roomId]
  /\ jjoin' = "joined"
  /\ UNCHANGED << jbase, jcreate >>
  /\ JoinFrame

\* the 30 s timeout of joinRoom wins the race: joinRoom throws
JoinRoomTimeout ==
  /\ jjoin \in {"pairing", "confirmed"}
  /\ jjoin' = "timedout"
  /\ UNCHANGED << jbase, jlogs, jheld, jmembers, jroomId, jcreate >>
  /\ JoinFrame

\* createChannel on replica r, whose room is set up and writable
RoomCreateChannel(r, id) ==
  /\ JChannelCount < MaxRoomOps
  /\ IF r = "A" THEN jcreate = "done" ELSE jjoin \in {"resolved", "joined"}
  /\ JWritable(r, jlogs, jheld[r])
  /\ JLocalAppend(r, JEntry("create-channel", id, "none"))
  /\ UNCHANGED << jbase, jcreate, jjoin >>
  /\ JoinFrame

JoinNext ==
  \/ CreateRoomAppend
  \/ \E m \in MemberIds : CreateRoomAddMember(m)
  \/ RoomCreateInvite
  \/ JoinRoomStart
  \/ RoomMemberOnadd
  \/ \E r \in Replicas, n \in 1..MaxJoinBatch : JoinDeliver(r, n)
  \/ \E m \in MemberIds : JoinRoomAddMember(m)
  \/ JoinRoomTimeout
  \/ \E r \in Replicas, id \in 1..MaxRoomOps : RoomCreateChannel(r, id)

\* ------------------------------------------------------------------------
\* Part 8: Gigauser.recoverFromSeed (second draft)
\* ------------------------------------------------------------------------

\* opts.timeout || 120000
RecoveryTimeoutMs ==
  120000

\* the period of the setInterval that looks at receivedInvite
PollMs ==
  500

\* a timeout a caller passes in opts.timeout
ShortTimeoutMs ==
  1250

\* one step of the recovery clock, in milliseconds
RecoverTickMs ==
  250

RecoveryTimeouts ==
  {RecoveryTimeoutMs, ShortTimeoutMs}

\* how Gigauser.pairDevice(store, invite, opts) ends
PairOutcomes ==
  {"paired", "pairing-threw"}

RecoverFresh ==
  /\ qnow = 0
  /\ qnextPoll = PollMs
  /\ qinvite = FALSE
  /\ qat = -1
  /\ qstate = "waiting"
  /\ qswarm = "joined"
  /\ qresult = "none"

\* recoverFromSeed has created its swarm, joined the topic and armed both
\* timers
RecoverInit ==
  /\ qtimeout \in RecoveryTimeouts
  /\ RecoverFresh

RecoverIdle ==
  /\ qtimeout = RecoveryTimeoutMs
  /\ RecoverFresh

\* (mutant) the interval callback resolves whether or not an invite is there
PollSeesAlways(inv) ==
  TRUE

\* the interval callback: if (receivedInvite) resolve(receivedInvite)
PollSees(inv) ==
  inv

\* a peer's invite-response reaches the connection's data handler while the
\* swarm is up
ReceiveInvite ==
  /\ qswarm = "joined"
  /\ ~qinvite
  /\ qinvite' = TRUE
  /\ qat' = qnow
  /\ UNCHANGED << qtimeout, qnow, qnextPoll, qstate, qswarm, qresult >>
  /\ RecoverFrame

\* the clock advances and the timers that became due fire.  The interval
\* callback settles the race when it sees an invite and is due no later
\* than the timeout; the timeout settles it when it is due and no callback
\* that sees an invite is due before it.  Two timers due at the same
\* instant fire in either order.
RecoverTick ==
  /\ qstate = "waiting"
  /\ LET t == qnow + RecoverTickMs
         pollDue == qnextPoll <= t
         timeoutDue == qtimeout <= t
         pollWins == /\ pollDue /\ PollSees(qinvite)
                     /\ (timeoutDue => qnextPoll <= qtimeout)
         timeoutWins == /\ timeoutDue
                        /\ ~(pollDue /\ PollSees(qinvite) /\ qnextPoll < qtimeout)
     IN  /\ qnow' = t
         /\ qnextPoll' = IF pollDue THEN qnextPoll + PollMs ELSE qnextPoll
         /\ \/ pollWins /\ qstate' = "pairing"
            \/ timeoutWins /\ qstate' = "creating"
            \/ ~pollWins /\ ~timeoutWins /\ qstate' = "waiting"
  /\ UNCHANGED << qtimeout, qinvite, qat, qswarm, qresult >>
  /\ RecoverFrame

\* the race gave the invite: swarm.destroy(), then pairDevice; an error of
\* pairDevice reaches the catch block, which destroys the swarm again and
\* rethrows it ('Pairing timed out' and 'Pairing closed' contain neither
\* 'timeout' nor 'No invite')
RecoverPair(outcome) ==
  /\ qstate = "pairing"
  /\ qswarm' = "destroyed"
  /\ qresult' = outcome
  /\ qstate' = "done"
  /\ UNCHANGED << qtimeout, qnow, qnextPoll, qinvite, qat >>
  /\ RecoverFrame

\* the race rejected with 'Recovery timeout: No invite received': the catch
\* block destroys the swarm and returns Gigauser.create(store, seedPhrase)
RecoverCreate ==
  /\ qstate = "creating"
  /\ qswarm' = "destroyed"
  /\ qresult' = "created"
  /\ qstate' = "done"
  /\ UNCHANGED << qtimeout, qnow, qnextPoll, qinvite, qat >>
  /\ RecoverFrame

RecoverNext ==
  \/ ReceiveInvite
  \/ RecoverTick
  \/ \E outcome \in PairOutcomes : RecoverPair(outcome)
  \/ RecoverCreate

\* ------------------------------------------------------------------------
\* The specifications
\* ------------------------------------------------------------------------

InitPairerSpec ==
  PairerInit /\ MemberIdle /\ ReplayIdle /\ ConvIdle /\ AppendFresh /\ DevIdle /\ JoinIdle
    /\ RecoverIdle

SpecPairer ==
  InitPairerSpec /\ [][PairerNext]_vars

InitMemberSpec ==
  MemberInit /\ PairerIdle /\ ReplayIdle /\ ConvIdle /\ AppendFresh /\ DevIdle /\ JoinIdle
    /\ RecoverIdle

SpecMember ==
  InitMemberSpec /\ [][MemberNext]_vars

InitReplaySpec ==
  ReplayInit /\ PairerIdle /\ MemberIdle /\ ConvIdle /\ AppendFresh /\ DevIdle /\ JoinIdle
    /\ RecoverIdle

SpecReplay ==
  InitReplaySpec /\ [][ReplayNext]_vars

InitConvSpec ==
  ConvInit /\ PairerIdle /\ MemberIdle /\ ReplayIdle /\ AppendFresh /\ DevIdle /\ JoinIdle
    /\ RecoverIdle

SpecConv ==
  InitConvSpec /\ [][ConvNext]_vars

\* the two replicas of a GigaRoom, whose handlers draw no random bytes
InitConvLiveSpec ==
  InitConvSpec /\ cvariant = "GigaRoom"

NoDraw ==
  [j \in 1..MaxConv |-> 100 + j]

ConvLiveNext ==
  \/ \E k \in Keys, id \in NewIds : CreateChannel(k, id, NoDraw)
  \/ \E r \in Replicas, k \in Keys : Deliver(r, k, NoDraw)

\* replica r lacks an entry of writer k's log: the guard of Deliver
CanDeliver(r, k) ==
  Home(k) # r /\ Count(arrival[r], k) < Len(clogs[k])

\* replication is fair: an entry a replica lacks is eventually delivered.
\* This is weak fairness of Deliver(r, k, NoDraw), written with the guard of
\* the action in place of its enabling condition
ConvFairness ==
  \A r \in Replicas, k \in Keys :
    \/ []<>(~CanDeliver(r, k))
    \/ []<><<Deliver(r, k, NoDraw)>>_vars

SpecConvLive ==
  InitConvLiveSpec /\ [][ConvLiveNext]_vars /\ ConvFairness

InitAppendSpec ==
  AppendFresh /\ PairerIdle /\ MemberIdle /\ ReplayIdle /\ ConvIdle /\ DevIdle /\ JoinIdle
    /\ RecoverIdle

SpecAppend ==
  InitAppendSpec /\ [][AppendNext]_vars

InitDevSpec ==
  DevInit /\ PairerIdle /\ MemberIdle /\ ReplayIdle /\ ConvIdle /\ AppendFresh /\ JoinIdle
    /\ RecoverIdle

SpecDevices ==
  InitDevSpec /\ [][DevNext]_vars

InitJoinSpec ==
  JoinInit /\ PairerIdle /\ MemberIdle /\ ReplayIdle /\ ConvIdle /\ AppendFresh
    /\ DevIdle /\ RecoverIdle

SpecJoin ==
  InitJoinSpec /\ [][JoinNext]_vars

InitRecoverSpec ==
  RecoverInit /\ PairerIdle /\ MemberIdle /\ ReplayIdle /\ ConvIdle /\ AppendFresh
    /\ DevIdle /\ JoinIdle

SpecRecover ==
  InitRecoverSpec /\ [][RecoverNext]_vars

\* ------------------------------------------------------------------------
\* Properties of the member side
\* ------------------------------------------------------------------------

\* the candidates the member added as writer or confirmed on invite id
AdmittedOn(id) ==
  {c \in Cands : cstate[c].invite = id /\ (cstate[c].added \/ cstate[c].confirmed)}

\* C3: an invite created with maxUses = 1 admits at most one candidate; a
\* later candidate presenting it is neither added as writer nor confirmed
C3_MaxUsesOneAdmitsOne ==
  \A i \in invites : i.maxUses = 1 => Cardinality(AdmittedOn(i.id)) <= 1

\* C4: the member never opens, adds or confirms a candidate whose invite
\* had expired when the handshake was handled
C4_NoExpiredAdmission ==
  \A c \in Cands :
    (cstate[c].opened \/ cstate[c].added \/ cstate[c].confirmed)
      => LET inv == FindById(invites, cstate[c].invite)
         IN  ~(inv.expiresAt # 0 /\ cstate[c].at > inv.expiresAt)

\* C16: a candidate whose invite matched no valid stored invite when the
\* member handled it - no invite with that id, or an invite already expired -
\* was not opened, not added as writer and not confirmed
C16_InvalidInviteIgnored ==
  \A c \in Cands :
    LET inv == FindById(invites, cstate[c].invite)
    IN  (cstate[c].handled
           /\ (inv = NoInvite \/ (inv.expiresAt # 0 /\ cstate[c].at > inv.expiresAt)))
          => (~cstate[c].opened /\ ~cstate[c].added /\ ~cstate[c].confirmed)

\* C17: the member's steps come in order - a candidate is opened only on a
\* stored invite with its id, its key is appended as a writer only after it
\* was opened, and it is confirmed only after its key was appended
C17_ConfirmOnlyAfterAppend ==
  \A c \in Cands :
    /\ cstate[c].opened => FindById(invites, cstate[c].invite) # NoInvite
    /\ cstate[c].added => cstate[c].opened
    /\ cstate[c].confirmed => cstate[c].added

\* C32: in the variants whose createInvite returns the stored invite, the
\* view holds at most one invite record, so that the single-record lookup of
\* the member finds every stored invite
C32_SingleInvite ==
  mvariant \in {"Gigauser1", "UserManager", "RoomManager"}
    => /\ Cardinality(invites) <= 1
       /\ \A i \in invites : FindOne(invites) = i

\* the stored invite a candidate presented was marked revoked when the member
\* handled the candidate (a record is revoked by replacing it, and stays so)
RevokedWhenHandled(c) ==
  /\ cstate[c].handled
  /\ cstate[c].revoked

EntryOf(src) ==
  logs[src[1]][src[2]]

\* the writer set the specification prescribes after the first n replayed
\* entries: X created the base; add-writer and remove-writer entries of
\* authorized writers change it, the last writer is never removed
RECURSIVE PrescribedWriters(_, _)
PrescribedWriters(h, n) ==
  IF n = 0 THEN {"X"}
  ELSE LET ws == PrescribedWriters(h, n - 1)
           e == EntryOf(h[n].src)
       IN  IF h[n].src[1] \notin ws \/ ~e.ok THEN ws
           ELSE IF e.cmd = "add-writer" THEN ws \cup {e.arg}
           ELSE IF e.cmd = "remove-writer" /\ ws # {e.arg} THEN ws \ {e.arg}
           ELSE ws

\* C1: every entry whose command took effect was written by a key that is in
\* the writer set prescribed by the entries replayed before it, and every
\* document of the view comes from such an entry
C1_AuthorizationGating ==
  /\ \A i \in 1..Len(history) :
       history[i].dispatched
         => history[i].src[1] \in PrescribedWriters(history, i - 1)
  /\ \A d \in view :
       \E i \in 1..Len(history) :
         /\ history[i].src = d.src
         /\ history[i].dispatched
         /\ d.src[1] \in PrescribedWriters(history, i - 1)

\* C1 witness: an entry of Y took effect while Y was a writer, Y has been
\* removed since, and an entry Y wrote afterwards is kept out of the replay
C1_Witness ==
  /\ "Y" \notin writers
  /\ cursor["Y"] < Len(logs["Y"])
  /\ \E i \in 1..Len(history) : history[i].src[1] = "Y" /\ history[i].dispatched

\* a node record of a remove-writer entry that targets the sole writer
TargetsSoleWriter(rec) ==
  /\ EntryOf(rec.src).cmd = "remove-writer"
  /\ EntryOf(rec.src).ok
  /\ rec.before = {EntryOf(rec.src).arg}

\* C2: the writer set is never empty, and a remove-writer entry that targets
\* the sole remaining writer leaves the writer set unchanged
C2_NoLockout ==
  /\ writers # {}
  /\ \A i \in 1..Len(history) :
       TargetsSoleWriter(history[i]) => history[i].after = history[i].before
  /\ \A i \in 1..Len(lastBatch) :
       TargetsSoleWriter(lastBatch[i]) => lastBatch[i].after = lastBatch[i].before

\* C2 witness: a remove-writer entry for the sole writer has been replayed
C2_Witness ==
  \E i \in 1..Len(history) : TargetsSoleWriter(history[i])

\* the replayed remove-writer entries that took key k out of the writer set
\* and after which k was not added again
RemovalsOf(k) ==
  {i \in 1..Len(history) :
     /\ EntryOf(history[i].src).cmd = "remove-writer"
     /\ EntryOf(history[i].src).arg = k
     /\ k \in history[i].before
     /\ k \notin history[i].after
     /\ \A j \in (i + 1)..Len(history) : k \notin history[j].after}

\* C18: once a remove-writer(k) entry has been replayed, the documents that
\* k's earlier entries inserted are still in the view (unless a later entry
\* replaced the same document), no entry of k is replayed after it and no
\* document of the view comes from an entry k wrote after it
C18_RemovedWriterCutoff ==
  \A k \in Keys : \A i \in RemovalsOf(k) :
    /\ \A j \in 1..(i - 1) :
         (history[j].src[1] = k /\ history[j].dispatched
            /\ EntryOf(history[j].src).cmd = "data")
           => \/ \E d \in txview : d.src = history[j].src
              \/ \E n \in (j + 1)..Len(history) :
                   /\ history[n].dispatched
                   /\ EntryOf(history[n].src).cmd = "data"
                   /\ EntryOf(history[n].src).arg = EntryOf(history[j].src).arg
    /\ \A j \in (i + 1)..Len(history) : history[j].src[1] # k
    /\ \A d \in view \cup txview :
         d.src[1] = k => \E j \in 1..i : history[j].src = d.src

\* C18 witness: X's remove-writer(Y) has been replayed, Y is out of the
\* writer set, and the document Y inserted before it is in the view
C18_Witness ==
  /\ "Y" \notin writers
  /\ \E i \in RemovalsOf("Y") :
       /\ history[i].src[1] = "X"
       /\ \E j \in 1..(i - 1) :
            /\ history[j].src[1] = "Y"
            /\ EntryOf(history[j].src).cmd = "data"
            /\ \E d \in view : d.src = history[j].src

\* C19: a replayed add-writer(k) entry puts k in the writer set, k stays in
\* it for every entry replayed afterwards until a remove-writer(k) takes it
\* out, and the writer set only changes through replayed entries, each of
\* them written by a key that was in the writer set at that point
C19_AddWriterTakesEffect ==
  /\ \A i \in 1..Len(history) :
       (history[i].dispatched /\ EntryOf(history[i].src).cmd = "add-writer")
         => LET k == EntryOf(history[i].src).arg
            IN  /\ k \in history[i].after
                /\ \A j \in (i + 1)..Len(history) :
                     (\A n \in (i + 1)..(j - 1) :
                        ~(EntryOf(history[n].src).cmd = "remove-writer"
                            /\ EntryOf(history[n].src).arg = k))
                       => k \in history[j].before
  /\ \A i \in 1..Len(history) :
       /\ history[i].src[1] \in history[i].before
       /\ history[i].before = IF i = 1 THEN {"X"} ELSE history[i - 1].after
  /\ writers = IF history = << >> THEN {"X"} ELSE history[Len(history)].after

\* C19 witness: X's add-writer(Y) has been replayed and an entry of Y was
\* dispatched after it
C19_Witness ==
  \E i \in 1..Len(history) :
    /\ history[i].src[1] = "X"
    /\ EntryOf(history[i].src) = [cmd |-> "add-writer", arg |-> "Y", ok |-> TRUE]
    /\ \E j \in (i + 1)..Len(history) :
         history[j].src[1] = "Y" /\ history[j].dispatched

\* C10: when a handler fails on an entry of a batch whose payload is
\* malformed, the replay is not aborted, every other entry of the batch is dispatched and the documents
\* they insert are in the view
C10_FailureSkipsOnlyThatEntry ==
  (\E i \in 1..Len(lastBatch) :
      lastBatch[i].failed /\ ~EntryOf(lastBatch[i].src).ok)
    => /\ bstatus = "ok"
       /\ \A j \in 1..Len(lastBatch) :
            ~lastBatch[j].failed
              => /\ lastBatch[j].dispatched
                 /\ EntryOf(lastBatch[j].src).cmd = "data"
                      => \E d \in view : d.id = EntryOf(lastBatch[j].src).arg

\* C11: when a batch holds an entry whose command has no registered handler,
\* the replay is not aborted, the entries of the batch around it are
\* dispatched and the batch is flushed: the documents they insert are in the
\* view
C11_UnknownCommandSkipped ==
  (\E i \in 1..Len(lastBatch) : EntryOf(lastBatch[i].src).cmd = "unknown")
    => /\ bstatus = "ok"
       /\ \A j \in 1..Len(lastBatch) :
            (EntryOf(lastBatch[j].src).cmd # "unknown" /\ EntryOf(lastBatch[j].src).ok)
              => /\ lastBatch[j].dispatched
                 /\ EntryOf(lastBatch[j].src).cmd = "data"
                      => \E d \in view : d.src = lastBatch[j].src

\* C12: what the handlers of a batch wrote is in the view once _apply has
\* completed - nothing stays unflushed, every document a dispatched entry
\* inserted is there - and nothing a failed batch wrote is in the view
C12_AtomicFlush ==
  /\ bstatus = "ok"
       => /\ view = txview
          /\ \A j \in 1..Len(lastBatch) :
               (lastBatch[j].dispatched /\ EntryOf(lastBatch[j].src).cmd = "data")
                 => \E d \in view : d.id = EntryOf(lastBatch[j].src).arg
  /\ bstatus = "failed"
       => \A j \in 1..Len(lastBatch) :
            ~\E d \in view : d.src = lastBatch[j].src

\* view.get(collection, { id }): the document with this key, if any
NoDoc ==
  [id |-> "none", src |-> << "none", 0 >>, name |-> "none"]

ViewGet(vw, id) ==
  IF \E d \in vw : d.id = id THEN CHOOSE d \in vw : d.id = id ELSE NoDoc

\* the replayed entries that wrote document id, by position in the replay
WritesOf(id) ==
  {i \in 1..Len(history) :
     /\ history[i].dispatched
     /\ EntryOf(history[i].src).cmd = "data"
     /\ EntryOf(history[i].src).arg = id}

\* the last of them; 0 when there is none
LastWriteOf(id) ==
  IF WritesOf(id) = {} THEN 0
  ELSE CHOOSE i \in WritesOf(id) : \A j \in WritesOf(id) : j <= i

\* C27: once a create-room entry with id r1 and name Test has been replayed
\* by a GigaRoom (and no later entry has rewritten room r1), reading room r1
\* from the view returns a document whose name is Test
C27_CreateRoomReadable ==
  (rvariant = "GigaRoom" /\ LastWriteOf("r1") # 0
     /\ EntryOf(history[LastWriteOf("r1")].src).name = "Test")
    => ViewGet(view, "r1").name = "Test"

\* C27 witness: a GigaRoom has replayed an entry that wrote room r1 under
\* another name and after it the entry that creates it with name Test
C27_Witness ==
  /\ rvariant = "GigaRoom"
  /\ Cardinality(WritesOf("r1")) >= 2
  /\ EntryOf(history[LastWriteOf("r1")].src).name = "Test"
  /\ \E i \in WritesOf("r1") : EntryOf(history[i].src).name = "Other"

\* a node record of a remove-writer entry whose payload decoded
IsRemoval(rec) ==
  /\ EntryOf(rec.src).cmd = "remove-writer"
  /\ EntryOf(rec.src).ok

\* the entry a history record stands for carries a signature that fails
\* verification
BadSignature(rec) ==
  EntryOf(rec.src).cmd = "add-message" /\ EntryOf(rec.src).sig = "invalid"

\* C38: RoomManager's _apply does not dispatch a message whose signature
\* fails verification and nothing of it is in the view, while the other
\* entries of its batch are applied
C38_BadSignatureSkipped ==
  rvariant = "RoomManager"
    => /\ \A i \in 1..Len(history) :
            BadSignature(history[i])
              => /\ ~history[i].dispatched
                 /\ \A d \in view : d.src # history[i].src
       /\ \A i \in 1..Len(lastBatch) :
            (bstatus = "ok" /\ ~BadSignature(lastBatch[i])
               /\ EntryOf(lastBatch[i].src).ok
               /\ EntryOf(lastBatch[i].src).cmd = "data")
              => lastBatch[i].dispatched

\* C29: a replayed remove-writer entry takes its target out of the writer
\* set exactly when base.removeable(target) held for the writer set the entry
\* was replayed against; otherwise the writer set is what it was before
C29_RemoveOnlyIfRemoveable ==
  \A i \in 1..Len(history) :
    IsRemoval(history[i])
      => history[i].after =
           IF Removeable(history[i].before, EntryOf(history[i].src).arg)
             THEN history[i].before \ {EntryOf(history[i].src).arg}
             ELSE history[i].before

\* C29 witness: under a handler that asks base.removeable, one replayed
\* remove-writer entry took its target out and another, replayed when its
\* target was the only writer left, changed nothing and did not fail
C29_Witness ==
  /\ rvariant \in {"UserManager", "RoomManager", "GigachatRoom"}
  /\ \E i, j \in 1..Len(history) :
       /\ IsRemoval(history[i]) /\ IsRemoval(history[j])
       /\ history[i].after # history[i].before
       /\ ~Removeable(history[j].before, EntryOf(history[j].src).arg)
       /\ history[j].dispatched
       /\ history[j].after = history[j].before

\* ------------------------------------------------------------------------
\* Properties of the two replicas
\* ------------------------------------------------------------------------

\* replica r holds every entry of both logs
AllArrived(r) ==
  \A k \in Keys : Count(arrival[r], k) = Len(clogs[k])

C20_ConcurrentChannelsConverge ==
  (cvariant = "GigaRoom" /\ AllArrived("A") /\ AllArrived("B"))
    => channels["A"] = channels["B"]

\* C20 witness: X and Y each created a channel before seeing the other's,
\* both at the same position, and each replica received the other's entry
\* second
C20_Witness ==
  /\ cvariant = "GigaRoom"
  /\ arrival["A"] = << << "X", 1 >>, << "Y", 1 >> >>
  /\ arrival["B"] = << << "Y", 1 >>, << "X", 1 >> >>
  /\ Len(channels["A"]) = 2
  /\ channels["A"][1].position = channels["A"][2].position
  /\ channels["A"] = channels["B"]

\* C34: in the view of every replica, a channel has a position strictly
\* greater than that of every channel applied before it
C34_NewChannelLast ==
  cvariant = "GigaRoom"
    => \A r \in Replicas : \A d1, d2 \in cview[r] :
         IndexOf(CanonSeq(arrival[r]), d1.src) < IndexOf(CanonSeq(arrival[r]), d2.src)
           => d1.position < d2.position

\* the channel with this id has been created by one of the writers
ChannelCreated(id) ==
  \E k \in Keys : \E i \in 1..Len(clogs[k]) :
    clogs[k][i].cmd = "create-channel" /\ clogs[k][i].id = id

\* the channel with this id is in the channel list of replica r
ChannelListed(r, id) ==
  \E i \in 1..Len(channels[r]) : channels[r][i].id = id

\* e1 is emitted before e2 in the sequence of events evs
EmittedBefore(evs, e1, e2) ==
  \E i, j \in 1..Len(evs) : i < j /\ evs[i] = e1 /\ evs[j] = e2

\* C25: a channel one peer creates eventually is in the channel list of
\* every peer; peers that hold the same entries have channel lists of the
\* same length; and the _apply that applied a create-channel entry emitted
\* channels:updated and then update:complete
C25_ChannelsReachEveryPeer ==
  /\ \A id \in NewIds :
       ChannelCreated(id) ~> (\A r \in Replicas : ChannelListed(r, id))
  /\ []((cvariant = "GigaRoom" /\ AllArrived("A") /\ AllArrived("B"))
         => Len(channels["A"]) = Len(channels["B"]))
  /\ [](\A r \in Replicas :
          (cvariant = "GigaRoom" /\ arrival[r] # << >>)
            => EmittedBefore(cevents[r], "channels:updated", "update:complete"))

\* C25 witness: the channel X created has reached replica B, whose last
\* _apply emitted the events
C25_Witness ==
  /\ cvariant = "GigaRoom"
  /\ arrival["B"] = << << "X", 1 >> >>
  /\ Len(channels["A"]) = 1
  /\ channels["B"] = channels["A"]
  /\ cevents["B"] = << "update", "channels:updated", "update:complete" >>

\* ------------------------------------------------------------------------
\* Properties of the local append
\* ------------------------------------------------------------------------

\* C36: a removeDevice call given the id of the current device returns false
\* and appends neither remove-device nor remove-writer
C36_CurrentDeviceKept ==
  /\ []((alast.id = LocalWriterKey)
          => (alast.result = "false" /\ alast.cmds = << >>))
  /\ [][(alast' # alast /\ alast'.id = LocalWriterKey)
          => (alen' = alen /\ adevices' = adevices /\ awritable' = awritable)]_vars

\* C36 witness: the current device is registered under its writer key, the
\* base is writable and removeDevice was called with that id
C36_Witness ==
  /\ alast.id = LocalWriterKey
  /\ awritable
  /\ \E d \in adevices : d.id = LocalWriterKey /\ d.pk = LocalWriterKey

\* C15: a method that appends, called while the local key is not in the
\* writer set, ends with an error thrown to its caller and leaves the log as
\* it was
C15_NotWritableSurfaced ==
  (acall.result # "none" /\ ~acall.writable)
    => (acall.result = "threw" /\ ~acall.grew)

\* ------------------------------------------------------------------------
\* Properties of the pairers
\* ------------------------------------------------------------------------

\* C5: the promise of finished() is resolved only by a step that leaves the
\* joined base writable; it never resolves while the log is not writable
C5_ResolvesOnlyWhenWritable ==
  [][(promise # "resolved" /\ promise' = "resolved")
       => (userObj' = "open" /\ writable')]_vars

\* C5 witness: a pairing promise has been resolved after a confirmation
C5_Witness ==
  promise = "resolved" /\ onaddFired /\ writable

\* C6: once the member has confirmed and the candidate has observed its own
\* admission (the joined base is writable), the promise of finished() is
\* resolved, whether finished() was called before or after the confirmation
C6_ResolvedOnceAdmitted ==
  (onaddFired /\ promise # "none" /\ userObj = "open" /\ writable
     /\ closeState = "no")
    => promise = "resolved"

\* C7: a pairing operation is not pending once the timeout has elapsed
C7_PairingBounded ==
  opState = "pending" => now - opStart <= PairDeviceTimeoutMs

\* C8: when a pairing operation has failed with its timeout, the pairer's
\* candidate is closed and the swarm it created is destroyed
C8_TimeoutReleasesSession ==
  opState = "thrown" => (candObj = "closed" /\ swarmObj = "destroyed")

\* C9: a pairer closed before the member's confirmation, or after it while
\* the wait for writability was still pending, has its candidate closed and
\* its swarm destroyed
C9_CloseReleasesEverything ==
  (closeState = "done" /\ promise # "resolved"
     /\ (confirmedAtClose \/ ~onaddFired))
    => (candObj = "closed" /\ swarmObj = "destroyed")

\* the step on which _close, its awaited closes done, reaches onreject
CloseCompletes ==
  closeState = "begun" /\ closeState' = "done"

\* C30: a pairer whose close completes while the promise of finished() is
\* pending rejects that promise ('Pairing closed'), and a settled promise
\* keeps its outcome: it is never resolved after a rejection nor rejected
\* after a resolution
C30_CloseRejectsPending ==
  /\ [][(CloseCompletes /\ promise = "pending") => promise' = "rejected"]_vars
  /\ [][(promise = "resolved" \/ promise = "rejected") => promise' = promise]_vars

\* C30 witness: a close has rejected the promise after the member's
\* confirmation had arrived, while the wait for writability was pending
C30_Witness ==
  /\ closeState = "done"
  /\ promise = "rejected"
  /\ onaddFired
  /\ confirmedAtClose

\* the member's confirmation arrived after close() had been called
ConfirmedAfterCloseBegan ==
  closeState # "no" /\ onaddFired /\ ~confirmedAtClose

\* C31: a RoomPairer whose confirmation arrives after its close has begun
\* holds no room instance, has registered no listener on one and its pairing
\* promise is not resolved
C31_NoRoomAfterCloseBegan ==
  (kind = "RoomPairer" /\ ConfirmedAfterCloseBegan)
    => (user = "null" /\ userObj = "none" /\ ~listener
          /\ promise # "resolved")

\* C31 witness: a RoomPairer with a pending promise was closed, the
\* confirmation arrived during the close, and the close has completed
C31_Witness ==
  /\ kind = "RoomPairer"
  /\ ConfirmedAfterCloseBegan
  /\ closeState = "done"
  /\ promise = "rejected"

\* ------------------------------------------------------------------------
\* Properties of the paired devices
\* ------------------------------------------------------------------------

\* both devices are paired and hold every entry of the log
DevSynced ==
  \A d \in Devices : dstate[d] = "paired" /\ known[d] = 1..Len(glog)

SeqRange(s) ==
  {s[i] : i \in 1..Len(s)}

\* the position of the last entry of a command in the log, 0 when there is none
LastOf(cmd) ==
  IF \E n \in 1..Len(glog) : glog[n].cmd = cmd
    THEN CHOOSE n \in 1..Len(glog) :
           /\ glog[n].cmd = cmd
           /\ \A m \in 1..Len(glog) : glog[m].cmd = cmd => m <= n
    ELSE 0

\* C21: once both devices hold every entry, the rooms document their room
\* lists are read from holds every room either device has added
C21_NoRoomErased ==
  DevSynced =>
    \A d \in Devices : \A n \in 1..Len(glog) :
      glog[n].cmd = "update-rooms"
        => SeqRange(glog[n].rooms) \subseteq SeqRange(DevView(d).rooms)

\* C22: once both devices hold every entry, the profile, rooms and settings
\* a device exposes are those of the last update the other device appended
C22_UpdatesReflected ==
  DevSynced =>
    \A d \in Devices :
      /\ LET n == LastOf("set-profile")
         IN  (n > 0 /\ glog[n].by # d) => dcache[d].profile = glog[n].val
      /\ LET n == LastOf("update-rooms")
         IN  (n > 0 /\ glog[n].by # d) => dcache[d].rooms = glog[n].rooms
      /\ LET n == LastOf("update-settings")
         IN  (n > 0 /\ glog[n].by # d) => dcache[d].settings = glog[n].val

\* the commands of the user's schema and the room commands of the model
UserCommands ==
  {"remove-writer", "add-writer", "add-invite", "set-profile", "update-rooms",
   "update-devices", "update-settings", "set-identity"}

RoomCommands ==
  {"remove-writer", "add-writer", "add-invite", "create-room", "update-room",
   "add-member", "update-member", "remove-member", "create-channel"}

\* C39: for every command, the name _getCommandNameById gives the id the
\* generated dispatch encodes is the name the command was registered with:
\* in the third Gigauser draft and in GigaRoom, both built by the same
\* generator
C39_NamesMatchIds ==
  /\ dvariant = "Gigauser3"
       => \A cmd \in UserCommands :
            GetCommandNameById(CommandId(idBase, cmd)) = cmd
  /\ \A cmd \in RoomCommands :
       RoomCommandName(RoomCommandId(idBase, cmd)) = cmd

\* the positions _apply is handed when device d receives an entry: the new
\* position and the positions the device holds after it
ReceivedBatch(d) ==
  LET new == known'[d] \ known[d]
  IN  {x \in known'[d] : \E n \in new : x >= n}

BatchHas(d, cmd) ==
  \E x \in ReceivedBatch(d) : glog[x].cmd = cmd

\* C33: when _apply has completed a batch received from the other device,
\* the cached profile, rooms and settings equal the values of the view for
\* each kind of update the batch contains
C33_CacheEqualsView ==
  [][\A d \in Devices :
       (dop' = [op |-> "receive", dev |-> d] /\ known'[d] # known[d])
         => LET vw == ViewUpTo(glog', known'[d], Len(glog'))
            IN  /\ BatchHas(d, "set-profile") => dcache'[d].profile = vw.profile
                /\ BatchHas(d, "update-rooms") => dcache'[d].rooms = vw.rooms
                /\ BatchHas(d, "update-settings")
                     => dcache'[d].settings = vw.settings]_vars

C26_RoomsSurviveReopen ==
  [][\A d \in Devices :
       dop' = [op |-> "reopen", dev |-> d]
         => SeqRange(dcache[d].rooms) \subseteq SeqRange(dcache'[d].rooms)]_vars

\* ------------------------------------------------------------------------
\* Properties of the room and its joiner
\* ------------------------------------------------------------------------

\* both replicas hold every entry of both logs
JoinSynced ==
  \A r \in Replicas, k \in Keys : jheld[r][k] = Len(jlogs[k])

\* the user keys in this._members of replica r
MemberKeys(r) ==
  {m.userKey : m \in jmembers[r]}

\* C24: once joinRoom has returned the room and both replicas hold all
\* entries, room.members contains the creator and the joiner on the creator's
\* replica and on the joiner's replica
C24_BothAreMembers ==
  (jjoin = "joined" /\ JoinSynced)
    => \A r \in Replicas : {"uc", "uj"} \subseteq MemberKeys(r)

\* C24 witness: the join is done, the replicas are synchronised and channels
\* were created on both sides meanwhile
C24_Witness ==
  /\ jjoin = "joined"
  /\ JoinSynced
  /\ \E i \in 1..Len(jlogs["X"]) : jlogs["X"][i].cmd = "create-channel"
  /\ \E i \in 1..Len(jlogs["Y"]) : jlogs["Y"][i].cmd = "create-channel"


\* replica r holds every entry of both logs
JoinHoldsAll(r) ==
  \A k \in Keys : jheld[r][k] = Len(jlogs[k])

C37_RecoverOutcome ==
  qstate = "done"
    => /\ qswarm = "destroyed"
       /\ (qinvite /\ qat < qtimeout) => qresult \in PairOutcomes
       /\ ~(qinvite /\ qat < qtimeout) => qresult = "created"

====
